---- MODULE Spec2Model ----
(***************************************************************************)
(* Streaming YAML-Lite parser: tokenizer, stack-driven parser, IR builder  *)
(* and streaming facade, modelled as operators over the objects' fields.   *)
(* Strings are sequences of one-character strings; "" is the value        *)
(* peekChar returns past the end of the buffer.                            *)
(***************************************************************************)
EXTENDS Integers, Sequences, FiniteSets, TLC

\* The functions and methods of the program call one another through Call:
\* Call("f", <<a, b>>) is f(a, b).  Call is defined after them; with it they may
\* be written in the order of the source and call each other re-entrantly.
RECURSIVE Call(_, _)

\* ------------------------------------------------------------------------
\* Characters and strings
\* ------------------------------------------------------------------------

NL == "\n"
CR == "\r"
TAB == "\t"
SP == " "
NoChar == ""

IsWS(c) == c \in {SP, TAB, NL, CR}

RECURSIVE TrimLeft(_)
TrimLeft(s) ==
    IF s /= <<>> /\ IsWS(Head(s)) THEN TrimLeft(Tail(s)) ELSE s

RECURSIVE TrimRight(_)
TrimRight(s) ==
    IF s /= <<>> /\ IsWS(s[Len(s)]) THEN TrimRight(SubSeq(s, 1, Len(s) - 1)) ELSE s

\* String.prototype.trim
Trim(s) == TrimRight(TrimLeft(s))

RECURSIVE Repeat(_, _)
Repeat(s, n) == IF n <= 0 THEN <<>> ELSE s \o Repeat(s, n - 1)

RECURSIVE JoinLines(_)
JoinLines(ls) ==
    IF ls = <<>> THEN <<>>
    ELSE IF Len(ls) = 1 THEN ls[1]
    ELSE ls[1] \o <<NL>> \o JoinLines(Tail(ls))

\* ------------------------------------------------------------------------
\* Tokenizer
\* ------------------------------------------------------------------------

DefaultOptions == [indentSize |-> 2, allowTabs |-> FALSE, preserveComments |-> FALSE]

NoToken == [type |-> "NULL"]

createInitialTokenizerState ==
    [ pos |-> 0, line |-> 1, column |-> 1, indentStack |-> <<0>>,
      currentIndent |-> 0, pending |-> <<>>, atLineStart |-> TRUE ]

\* new Tokenizer(options): input = '', finishing = false
NewTokenizer(options) ==
    [ input |-> <<>>, state |-> createInitialTokenizerState,
      options |-> options, finishing |-> FALSE ]

TokenizerReset(T) ==
    [T EXCEPT !.input = <<>>, !.state = createInitialTokenizerState]

TokenizerWrite(T, chunk) == [T EXCEPT !.input = @ \o chunk]

peekChar(T, offset) ==
    IF T.state.pos + offset < Len(T.input)
    THEN T.input[T.state.pos + offset + 1]
    ELSE NoChar

advance(T) ==
    IF T.state.pos < Len(T.input)
    THEN [T EXCEPT !.state.pos = @ + 1, !.state.column = @ + 1]
    ELSE T

createToken(T, type, value) ==
    [ type |-> type, value |-> value, line |-> T.state.line,
      column |-> T.state.column, indent |-> T.state.currentIndent ]

RECURSIVE skipSpaces(_)
skipSpaces(T) == IF peekChar(T, 0) = SP THEN skipSpaces(advance(T)) ELSE T

RECURSIVE consumeIndentLoop(_, _)
consumeIndentLoop(T, spaces) ==
    IF T.state.pos < Len(T.input)
    THEN LET char == peekChar(T, 0) IN
         IF char = SP THEN consumeIndentLoop(advance(T), spaces + 1)
         ELSE IF char = TAB
              THEN consumeIndentLoop(advance(T), spaces + T.options.indentSize)
              ELSE [tk |-> T, n |-> spaces]
    ELSE [tk |-> T, n |-> spaces]

consumeIndent(T) == consumeIndentLoop(T, 0)

RECURSIVE measureIndentLoop(_, _, _)
measureIndentLoop(T, spaces, offset) ==
    LET char == peekChar(T, offset) IN
    IF char = SP THEN measureIndentLoop(T, spaces + 1, offset + 1)
    ELSE IF char = TAB /\ T.options.allowTabs
         THEN measureIndentLoop(T, spaces + T.options.indentSize, offset + 1)
         ELSE spaces

measureIndent(T) == measureIndentLoop(T, 0, 0)

\* a newline handler that returns its token and leaves the newline in the buffer
newlineLeftInBuffer(T) ==
    [ tk |-> [T EXCEPT !.state.line = @ + 1, !.state.column = 1, !.state.atLineStart = TRUE],
      tok |-> [ type |-> "NEWLINE", value |-> <<NL>>, line |-> T.state.line,
                column |-> T.state.column, indent |-> T.state.currentIndent ] ]

tokenizeNewline(T) ==
    LET token == createToken(T, "NEWLINE", <<NL>>)
        T1 == IF peekChar(T, 0) = CR THEN advance(T) ELSE T
        T2 == IF peekChar(T1, 0) = NL THEN advance(T1) ELSE T1
    IN [ tk |-> [T2 EXCEPT !.state.line = @ + 1, !.state.column = 1,
                           !.state.atLineStart = TRUE],
         tok |-> token ]

RECURSIVE commentLoop(_, _)
commentLoop(T, value) ==
    IF T.state.pos < Len(T.input)
    THEN LET char == peekChar(T, 0) IN
         IF char = NL \/ char = CR THEN [tk |-> T, value |-> value]
         ELSE commentLoop(advance(T), Append(value, char))
    ELSE [tk |-> T, value |-> value]

tokenizeComment(T) ==
    LET startCol == T.state.column
        r == commentLoop(advance(T), <<>>)
    IN IF ~T.options.preserveComments
       THEN Call("tokenizeNewline", <<r.tk>>)
       ELSE [ tk |-> r.tk,
              tok |-> [ type |-> "COMMENT", value |-> Trim(r.value),
                        line |-> r.tk.state.line, column |-> startCol,
                        indent |-> r.tk.state.currentIndent ] ]

Unescape(escaped) ==
    CASE escaped = "n" -> NL
      [] escaped = "t" -> TAB
      [] escaped = "r" -> CR
      [] OTHER -> escaped

RECURSIVE quotedLoop(_, _, _)
quotedLoop(T, quote, value) ==
    IF T.state.pos < Len(T.input)
    THEN LET char == peekChar(T, 0) IN
         IF char = quote THEN [tk |-> advance(T), value |-> value]
         ELSE IF char = "\\" /\ T.state.pos + 1 < Len(T.input)
              THEN LET T1 == advance(T)
                       escaped == peekChar(T1, 0)
                   IN quotedLoop(advance(T1), quote, Append(value, Unescape(escaped)))
              ELSE IF char = NL \/ char = CR THEN [tk |-> T, value |-> value]
              ELSE quotedLoop(advance(T), quote, Append(value, char))
    ELSE [tk |-> T, value |-> value]

tokenizeQuotedString(T, quote) ==
    LET startCol == T.state.column
        r == quotedLoop(advance(T), quote, <<>>)
    IN [ tk |-> r.tk,
         tok |-> [ type |-> "QUOTED", value |-> r.value, line |-> r.tk.state.line,
                   column |-> startCol, indent |-> r.tk.state.currentIndent ] ]

RECURSIVE flowLoop(_, _, _, _, _)
flowLoop(T, openChar, closeChar, value, depth) ==
    IF T.state.pos < Len(T.input)
    THEN LET char == peekChar(T, 0)
             d1 == IF char = openChar THEN depth + 1 ELSE depth
             d2 == IF char = closeChar THEN d1 - 1 ELSE d1
             v == Append(value, char)
             T1 == advance(T)
         IN IF d2 = 0 THEN [tk |-> T1, value |-> v]
            ELSE IF char = NL \/ char = CR THEN [tk |-> T1, value |-> v]
            ELSE flowLoop(T1, openChar, closeChar, v, d2)
    ELSE [tk |-> T, value |-> value]

tokenizeFlowCollection(T, openChar) ==
    LET startCol == T.state.column
        closeChar == IF openChar = "{" THEN "}" ELSE "]"
        r == flowLoop(T, openChar, closeChar, <<>>, 0)
    IN [ tk |-> r.tk,
         tok |-> [ type |-> "SCALAR", value |-> Trim(r.value), line |-> r.tk.state.line,
                   column |-> startCol, indent |-> r.tk.state.currentIndent ] ]

RECURSIVE keyOrScalarLoop(_, _)
keyOrScalarLoop(T, value) ==
    IF T.state.pos < Len(T.input)
    THEN LET char == peekChar(T, 0)
             nextCh == peekChar(T, 1)
         IN IF char = NL \/ char = CR \/ char = "#" THEN [tk |-> T, value |-> value]
            ELSE IF char = ":" /\ (nextCh = SP \/ nextCh = NL \/ nextCh = CR \/ nextCh = NoChar)
                 THEN [tk |-> T, value |-> value]
                 ELSE keyOrScalarLoop(advance(T), Append(value, char))
    ELSE [tk |-> T, value |-> value]

\* a tokenizer that stays where the scan of the incomplete token ended
staysAtEnd(T, startPos, startCol, startLine) == T

\* The rewind of an incomplete token: pos, column and line go back to the start.
Rewind(T, startPos, startCol, startLine) ==
    [T EXCEPT !.state.pos = startPos, !.state.column = startCol,
              !.state.line = startLine]

tokenizeKeyOrScalar(T) ==
    LET startCol == T.state.column
        startPos == T.state.pos
        startLine == T.state.line
        r == keyOrScalarLoop(T, <<>>)
        reachedEOF == r.tk.state.pos >= Len(r.tk.input)
        value == Trim(r.value)
    IN IF reachedEOF /\ ~T.finishing
       THEN [tk |-> Rewind(r.tk, startPos, startCol, startLine), tok |-> NoToken]
       ELSE [ tk |-> r.tk,
              tok |-> [ type |-> IF peekChar(r.tk, 0) = ":" THEN "KEY" ELSE "SCALAR",
                        value |-> value, line |-> r.tk.state.line,
                        column |-> startCol, indent |-> r.tk.state.currentIndent ] ]

RECURSIVE skipAfterPipe(_)
skipAfterPipe(T) ==
    IF T.state.pos < Len(T.input)
    THEN LET c == peekChar(T, 0) IN
         IF c = NL \/ c = CR THEN T
         ELSE IF c /= SP THEN T
         ELSE skipAfterPipe(advance(T))
    ELSE T

RECURSIVE skipBaseIndent(_, _, _)
skipBaseIndent(T, i, baseIndent) ==
    IF i < baseIndent /\ peekChar(T, 0) = SP
    THEN skipBaseIndent(advance(T), i + 1, baseIndent)
    ELSE T

RECURSIVE lineContentLoop(_, _)
lineContentLoop(T, lineContent) ==
    IF T.state.pos < Len(T.input)
    THEN LET c == peekChar(T, 0) IN
         IF c = NL \/ c = CR THEN [tk |-> T, value |-> lineContent]
         ELSE lineContentLoop(advance(T), Append(lineContent, c))
    ELSE [tk |-> T, value |-> lineContent]

RECURSIVE blockLinesLoop(_, _, _)
blockLinesLoop(T, baseIndent, lines) ==
    IF T.state.pos < Len(T.input)
    THEN LET lineIndent == measureIndent(T) IN
         IF lineIndent < baseIndent /\ peekChar(T, 0) /= NL /\ peekChar(T, 0) /= CR
         THEN [tk |-> T, lines |-> lines]
         ELSE LET r == lineContentLoop(skipBaseIndent(T, 0, baseIndent), <<>>)
                  ls == Append(lines, r.value)
                  T1 == IF peekChar(r.tk, 0) = CR THEN advance(r.tk) ELSE r.tk
              IN IF peekChar(T1, 0) = NL
                 THEN blockLinesLoop(
                          [advance(T1) EXCEPT !.state.line = @ + 1, !.state.column = 1,
                                              !.state.atLineStart = TRUE],
                          baseIndent, ls)
                 ELSE [tk |-> T1, lines |-> ls]
    ELSE [tk |-> T, lines |-> lines]

tokenizeMultilineString(T) ==
    LET startCol == T.state.column
        T1 == skipAfterPipe(advance(T))
        T2 == IF peekChar(T1, 0) = CR THEN advance(T1) ELSE T1
        T3 == IF peekChar(T2, 0) = NL
              THEN [advance(T2) EXCEPT !.state.line = @ + 1, !.state.column = 1]
              ELSE T2
        baseIndent == measureIndent(T3)
        r == blockLinesLoop(T3, baseIndent, <<>>)
    IN IF baseIndent = 0
       THEN [ tk |-> T3,
              tok |-> [ type |-> "SCALAR", value |-> <<>>, line |-> T3.state.line,
                        column |-> startCol, indent |-> T3.state.currentIndent ] ]
       ELSE [ tk |-> r.tk,
              tok |-> [ type |-> "SCALAR", value |-> JoinLines(r.lines),
                        line |-> r.tk.state.line, column |-> startCol,
                        indent |-> r.tk.state.currentIndent ] ]

tokenizeContent(T0) ==
    LET T == skipSpaces(T0)
        char == peekChar(T, 0)
    IN IF char = NoChar THEN [tk |-> T, tok |-> NoToken]
       ELSE IF char = NL \/ char = CR THEN Call("tokenizeNewline", <<T>>)
       ELSE IF char = "#" THEN Call("tokenizeComment", <<T>>)
       ELSE IF char = "-" /\ peekChar(T, 1) = SP
            THEN LET T1 == advance(T) IN [tk |-> T1, tok |-> createToken(T1, "DASH", <<"-">>)]
       ELSE IF char = "\"" \/ char = "'" THEN Call("tokenizeQuotedString", <<T, char>>)
       ELSE IF char = ":"
            THEN LET T1 == advance(T) IN [tk |-> T1, tok |-> createToken(T1, "COLON", <<":">>)]
       ELSE IF char = "|" THEN Call("tokenizeMultilineString", <<T>>)
       ELSE IF char = "{" \/ char = "[" THEN Call("tokenizeFlowCollection", <<T, char>>)
       ELSE Call("tokenizeKeyOrScalar", <<T>>)

Top(stack) == stack[Len(stack)]
Pop(stack) == SubSeq(stack, 1, Len(stack) - 1)

\* The while loop of the dedent branch: one pending DEDENT per level popped.
RECURSIVE dedentLoop(_, _)
dedentLoop(T, indentLevel) ==
    IF Len(T.state.indentStack) > 1 /\ Top(T.state.indentStack) > indentLevel
    THEN LET T1 == [T EXCEPT !.state.indentStack = Pop(@)]
         IN dedentLoop([T1 EXCEPT !.state.pending = Append(@, createToken(T1, "DEDENT", <<>>))],
                       indentLevel)
    ELSE T

tokenizeLineStart(T0) ==
    LET ci == consumeIndent(T0)
        indent == ci.n
        indentLevel == indent \div T0.options.indentSize
        currentLevel == Top(T0.state.indentStack)
        T == [ci.tk EXCEPT !.state.atLineStart = FALSE]
    IN IF peekChar(T, 0) = NL \/ peekChar(T, 0) = CR THEN Call("tokenizeNewline", <<T>>)
       ELSE IF peekChar(T, 0) = "#" THEN Call("tokenizeComment", <<T>>)
       ELSE IF indentLevel > currentLevel
            THEN LET T1 == [T EXCEPT !.state.indentStack = Append(@, indentLevel),
                                     !.state.currentIndent = indentLevel]
                 IN [ tk |-> T1,
                      tok |-> createToken(T1, "INDENT",
                                          Repeat(<<SP, SP>>, indentLevel - currentLevel)) ]
       ELSE IF indentLevel < currentLevel
            THEN LET T1 == dedentLoop([T EXCEPT !.state.currentIndent = indentLevel],
                                      indentLevel)
                 IN IF T1.state.pending /= <<>>
                    THEN [ tk |-> [T1 EXCEPT !.state.pending = Tail(@)],
                           tok |-> Head(T1.state.pending) ]
                    ELSE Call("tokenizeContent", <<T1>>)
       ELSE Call("tokenizeContent", <<[T EXCEPT !.state.currentIndent = indentLevel]>>)

\* Tokenizer.next(): the token, or NoToken for null
next(T) ==
    IF T.state.pending /= <<>>
    THEN [tk |-> [T EXCEPT !.state.pending = Tail(@)], tok |-> Head(T.state.pending)]
    ELSE IF T.state.pos >= Len(T.input) THEN [tk |-> T, tok |-> NoToken]
    ELSE IF T.state.atLineStart THEN Call("tokenizeLineStart", <<T>>)
    ELSE Call("tokenizeContent", <<T>>)

\* while ((token = this.next()) !== null) tokens.push(token)
RECURSIVE drain(_, _)
drain(T, tokens) ==
    LET r == Call("next", <<T>>) IN
    IF r.tok = NoToken THEN [tk |-> r.tk, tokens |-> tokens]
    ELSE drain(r.tk, Append(tokens, r.tok))

\* a finalize that leaves the open indent levels open
leavesOpen(T, tokens) == [tk |-> T, tokens |-> tokens]

RECURSIVE closeIndents(_, _)
closeIndents(T, tokens) ==
    IF Len(T.state.indentStack) > 1
    THEN LET T1 == [T EXCEPT !.state.indentStack = Pop(@)]
         IN closeIndents(T1, Append(tokens, createToken(T1, "DEDENT", <<>>)))
    ELSE [tk |-> T, tokens |-> tokens]

finalize(T) ==
    LET d == drain([T EXCEPT !.finishing = TRUE], <<>>)
        c == closeIndents([d.tk EXCEPT !.finishing = FALSE], d.tokens)
    IN [tk |-> c.tk, tokens |-> Append(c.tokens, createToken(c.tk, "EOF", <<>>))]

\* tokenize(input, options): tokenizeAll on a fresh tokenizer
tokenizeAll(T) ==
    LET d == drain(T, <<>>)
        f == Call("finalize", <<d.tk>>)
    IN [tk |-> f.tk, tokens |-> d.tokens \o f.tokens]

tokenize(input, options) == tokenizeAll(TokenizerWrite(NewTokenizer(options), input)).tokens

\* ------------------------------------------------------------------------
\* AST nodes (a heap indexed by node identity) and parser frames
\* ------------------------------------------------------------------------

KeyType == <<"t", "y", "p", "e">>
KeyRef == <<"r", "e", "f">>
KeyId == <<"i", "d">>
KeyDollarRef == <<"$", "r", "e", "f">>

ScalarNode(value, quoted, line, column) ==
    [kind |-> "scalar", value |-> value, quoted |-> quoted, line |-> line, column |-> column]
MappingNode(line, column) ==
    [kind |-> "mapping", entries |-> <<>>, line |-> line, column |-> column]
SequenceNode(line, column) ==
    [kind |-> "sequence", items |-> <<>>, line |-> line, column |-> column]
RefNode(target, line, column) ==
    [kind |-> "ref", target |-> target, line |-> line, column |-> column]
EmptyNode(hint, line, column) ==
    [kind |-> "empty", hint |-> hint, line |-> line, column |-> column]

\* pendingKey / pendingKeyPos of a frame; has = FALSE is undefined
NoKey == [has |-> FALSE, name |-> <<>>]
NoKeyPos == [has |-> FALSE, line |-> 0, column |-> 0]
SomeKey(name) == [has |-> TRUE, name |-> name]
\* a key recorded without its position
SomeKeyPosUnset(line, column) == NoKeyPos
SomeKeyPos(line, column) == [has |-> TRUE, line |-> line, column |-> column]
\* JavaScript truthiness of frame.pendingKey: defined and not the empty string
Truthy(pendingKey) == pendingKey.has /\ pendingKey.name /= <<>>

Frame(type, node, indent) ==
    [type |-> type, node |-> node, indent |-> indent,
     pendingKey |-> NoKey, pendingKeyPos |-> NoKeyPos]

\* A parser event as a listener or middleware sees it.  str: key, value, comment or
\* intent type; flag: quoted, or "type is null" for intent_ready; kind: block type;
\* num: indent level or node identity.
Event(type, str, flag, kind, num, pos) ==
    [type |-> type, str |-> str, flag |-> flag, kind |-> kind, num |-> num,
     line |-> pos.line, column |-> pos.column]

Alloc(S, node) == [S EXCEPT !.nodes = Append(@, node)]
LastId(S) == Len(S.nodes)

currentFrame(S) == S.stack[Len(S.stack)]

IsMappingFrame(frame) == frame.type = "mapping" \/ frame.type = "root"

\* Parser.pushFrame: a 'root' frame is stored with type 'mapping'
pushFrame(S, type, indent) ==
    LET S1 == Alloc(S, IF type = "sequence" THEN SequenceNode(0, 0) ELSE MappingNode(0, 0))
    IN [S1 EXCEPT !.stack = Append(@, Frame(IF type = "root" THEN "mapping" ELSE type,
                                            LastId(S1), indent))]

\* an entry builder that puts the new entry in the place of the entries before it
replacesEntries(S, fi, key, value, keyPos) ==
    [S EXCEPT !.nodes[S.stack[fi].node].entries =
         <<[key |-> key, value |-> value, line |-> keyPos.line, column |-> keyPos.column]>>]

\* an entry builder that inserts the value it is handed under every key
keepsScalar(S, fi, key, value, keyPos) ==
    [S EXCEPT !.nodes[S.stack[fi].node].entries =
         Append(@, [key |-> key, value |-> value,
                    line |-> keyPos.line, column |-> keyPos.column])]

\* Parser.addMappingEntry on the frame at stack index fi; value is a node identity
addMappingEntry(S, fi, key, value, keyPos) ==
    LET mapping == S.stack[fi].node
        v == S.nodes[value]
    IN IF key = KeyRef /\ v.kind = "scalar"
       THEN LET S1 == Alloc(S, RefNode(v.value, v.line, v.column))
            IN [S1 EXCEPT !.nodes[mapping].entries =
                    Append(@, [key |-> key, value |-> LastId(S1),
                               line |-> keyPos.line, column |-> keyPos.column])]
       ELSE [S EXCEPT !.nodes[mapping].entries =
                    Append(@, [key |-> key, value |-> value,
                               line |-> keyPos.line, column |-> keyPos.column])]

ClearPendingKey(S, fi) ==
    [S EXCEPT !.stack[fi].pendingKey = NoKey, !.stack[fi].pendingKeyPos = NoKeyPos]

\* index of the first element of seq satisfying Test, or 0 (Array.prototype.find)
FindFirst(seq, Test(_)) ==
    IF \E i \in 1..Len(seq) : Test(seq[i])
    THEN CHOOSE i \in 1..Len(seq) : Test(seq[i]) /\ \A j \in 1..(i - 1) : ~Test(seq[j])
    ELSE 0

InSeq(x, seq) == \E i \in 1..Len(seq) : seq[i] = x

\* ------------------------------------------------------------------------
\* IR builder.  IR values are tagged records; an object is its key/value pairs
\* in insertion order.  An object's identity is its place (path) in the value
\* under construction: the registry holds a path while the object is part of
\* that value, and the object itself once an assignment has detached it.
\* ------------------------------------------------------------------------

IRNull == [t |-> "null"]
IRBool(b) == [t |-> "bool", b |-> b]
IRNum(s) == [t |-> "num", n |-> s]
IRStr(s) == [t |-> "str", s |-> s]
IRObj(kv) == [t |-> "obj", kv |-> kv]
IRArr(items) == [t |-> "arr", items |-> items]
EmptyObj == IRObj(<<>>)

Digits == {"0", "1", "2", "3", "4", "5", "6", "7", "8", "9"}
AllDigits(s) == s /= <<>> /\ \A i \in 1..Len(s) : s[i] \in Digits

RECURSIVE StripLeadingZeros(_)
StripLeadingZeros(s) ==
    IF Len(s) > 1 /\ Head(s) = "0" THEN StripLeadingZeros(Tail(s)) ELSE s

RECURSIVE StripTrailingZeros(_)
StripTrailingZeros(s) ==
    IF s /= <<>> /\ s[Len(s)] = "0" THEN StripTrailingZeros(SubSeq(s, 1, Len(s) - 1)) ELSE s

IndexOf(s, c) == FindFirst(s, LAMBDA x : x = c)

\* /^-?\d+$/
IsIntegerLiteral(s) ==
    IF s /= <<>> /\ Head(s) = "-" THEN AllDigits(Tail(s)) ELSE AllDigits(s)

\* /^-?\d+\.\d+$/
IsFloatLiteral(s) ==
    LET u == IF s /= <<>> /\ Head(s) = "-" THEN Tail(s) ELSE s
        dot == IndexOf(u, ".")
    IN dot > 0 /\ AllDigits(SubSeq(u, 1, dot - 1)) /\ AllDigits(SubSeq(u, dot + 1, Len(u)))

\* The number a decimal literal denotes, written canonically: no leading zeros,
\* no trailing zeros in the fraction, no fraction when it is zero.
CanonicalNumber(s) ==
    LET neg == s /= <<>> /\ Head(s) = "-"
        u == IF neg THEN Tail(s) ELSE s
        dot == IndexOf(u, ".")
        int == StripLeadingZeros(IF dot > 0 THEN SubSeq(u, 1, dot - 1) ELSE u)
        frac == IF dot > 0 THEN StripTrailingZeros(SubSeq(u, dot + 1, Len(u))) ELSE <<>>
        abs == IF frac = <<>> THEN int ELSE int \o <<".">> \o frac
    IN IF neg THEN <<"-">> \o abs ELSE abs

\* Number.isSafeInteger(parseInt(s, 10)): |n| <= 9007199254740991
MaxSafeDigits == <<"9","0","0","7","1","9","9","2","5","4","7","4","0","9","9","1">>

RECURSIVE DigitsLeq(_, _)
DigitsLeq(a, b) ==
    IF a = <<>> THEN TRUE
    ELSE LET x == CHOOSE n \in 0..9 : ToString(n) = Head(a)
             y == CHOOSE n \in 0..9 : ToString(n) = Head(b)
         IN IF x < y THEN TRUE ELSE IF x > y THEN FALSE ELSE DigitsLeq(Tail(a), Tail(b))

IsSafeInteger(s) ==
    LET d == StripLeadingZeros(IF Head(s) = "-" THEN Tail(s) ELSE s)
    IN \/ Len(d) < Len(MaxSafeDigits)
       \/ Len(d) = Len(MaxSafeDigits) /\ DigitsLeq(d, MaxSafeDigits)

NullWords == { <<"n","u","l","l">>, <<"N","u","l","l">>, <<"N","U","L","L">>, <<"~">> }
TrueWords == { <<"t","r","u","e">>, <<"T","r","u","e">>, <<"T","R","U","E">> }
FalseWords == { <<"f","a","l","s","e">>, <<"F","a","l","s","e">>, <<"F","A","L","S","E">> }

RECURSIVE DigitsToNat(_)
DigitsToNat(s) ==
    IF s = <<>> THEN 0
    ELSE 10 * DigitsToNat(SubSeq(s, 1, Len(s) - 1))
         + (CHOOSE n \in 0..9 : ToString(n) = s[Len(s)])

\* /^-?\d+\.?\d*[eE][+-]?\d+$/ taken apart; ok is whether the pattern matches
SciParts(s) ==
    LET neg == s /= <<>> /\ Head(s) = "-"
        u == IF neg THEN Tail(s) ELSE s
        e == FindFirst(u, LAMBDA x : x = "e" \/ x = "E")
        mant == SubSeq(u, 1, e - 1)
        ex == SubSeq(u, e + 1, Len(u))
        exNeg == ex /= <<>> /\ Head(ex) = "-"
        exDigits == IF ex /= <<>> /\ Head(ex) \in {"-", "+"} THEN Tail(ex) ELSE ex
        dot == IndexOf(mant, ".")
        int == IF dot > 0 THEN SubSeq(mant, 1, dot - 1) ELSE mant
        frac == IF dot > 0 THEN SubSeq(mant, dot + 1, Len(mant)) ELSE <<>>
    IN [ ok |-> e > 0 /\ AllDigits(int) /\ (frac = <<>> \/ AllDigits(frac))
                /\ AllDigits(exDigits),
         neg |-> neg, int |-> int, frac |-> frac, exNeg |-> exNeg, exDigits |-> exDigits ]

IsScientific(s) == Call("SciParts", <<s>>).ok

\* the decimal point of int.frac moved by the exponent
SciDecimal(s) ==
    LET p == Call("SciParts", <<s>>)
        d == p.int \o p.frac
        ex == IF p.exNeg THEN 0 - DigitsToNat(p.exDigits) ELSE DigitsToNat(p.exDigits)
        point == Len(p.int) + ex
        abs == IF point >= Len(d) THEN d \o Repeat(<<"0">>, point - Len(d))
               ELSE IF point <= 0 THEN <<"0", ".">> \o Repeat(<<"0">>, 0 - point) \o d
               ELSE SubSeq(d, 1, point) \o <<".">> \o SubSeq(d, point + 1, Len(d))
    IN IF p.neg THEN <<"-">> \o abs ELSE abs

\* Number.isFinite(parseFloat(s)) for a literal in scientific notation
MaxDoubleExponent == 308
SciIsFinite(s) ==
    LET p == Call("SciParts", <<s>>)
        d == p.int \o p.frac
        lead == Len(d) - Len(StripLeadingZeros(d))
        ex == IF p.exNeg THEN 0 - DigitsToNat(p.exDigits) ELSE DigitsToNat(p.exDigits)
    IN (\A i \in 1..Len(d) : d[i] = "0") \/ Len(p.int) + ex - lead <= MaxDoubleExponent

\* ---- JSON.parse, for the inline flow values ----------------------------
JsonFail == [ok |-> FALSE, v |-> IRNull, i |-> 0]
JsonOk(v, i) == [ok |-> TRUE, v |-> v, i |-> i]
JsonWS == {SP, TAB, NL, CR}

RECURSIVE JsonSkip(_, _)
JsonSkip(s, i) == IF i <= Len(s) /\ s[i] \in JsonWS THEN JsonSkip(s, i + 1) ELSE i

StartsAt(s, i, w) == i + Len(w) - 1 <= Len(s) /\ SubSeq(s, i, i + Len(w) - 1) = w

RECURSIVE JsonDigitsEnd(_, _)
JsonDigitsEnd(s, i) == IF i <= Len(s) /\ s[i] \in Digits THEN JsonDigitsEnd(s, i + 1) ELSE i

JsonNumber(s, i) ==
    LET a == IF i <= Len(s) /\ s[i] = "-" THEN i + 1 ELSE i
        b == JsonDigitsEnd(s, a)
        c == IF b <= Len(s) /\ s[b] = "." THEN JsonDigitsEnd(s, b + 1) ELSE b
        hasE == c <= Len(s) /\ s[c] \in {"e", "E"}
        d == IF hasE /\ c + 1 <= Len(s) /\ s[c + 1] \in {"+", "-"} THEN c + 2 ELSE c + 1
        e == IF hasE THEN JsonDigitsEnd(s, d) ELSE c
        text == SubSeq(s, i, e - 1)
    IN IF b = a \/ (b - a > 1 /\ s[a] = "0") \/ (c > b /\ c = b + 1) \/ (hasE /\ e = d)
       THEN JsonFail
       ELSE JsonOk(IRNum(Call("CanonicalNumber", <<IF hasE THEN Call("SciDecimal", <<text>>) ELSE text>>)), e)

RECURSIVE JsonStringBody(_, _, _)
JsonStringBody(s, i, acc) ==
    IF i > Len(s) THEN JsonFail
    ELSE IF s[i] = "\"" THEN JsonOk(IRStr(acc), i + 1)
    ELSE IF s[i] \in {NL, CR, TAB} THEN JsonFail
    ELSE IF s[i] = "\\"
         THEN IF i + 1 <= Len(s) /\ s[i + 1] \in {"\"", "\\", "/", "n", "t", "r"}
              THEN Call("JsonStringBody", <<s, i + 2, Append(acc, Unescape(s[i + 1]))>>)
              ELSE JsonFail
    ELSE Call("JsonStringBody", <<s, i + 1, Append(acc, s[i])>>)

\* obj[key] = value: an existing key keeps its place
\* an assignment that leaves a key the object already has as it is
ObjSetFirstWins(kv, k, v) ==
    LET at == FindFirst(kv, LAMBDA e : e.k = k)
    IN IF at > 0 THEN kv ELSE Append(kv, [k |-> k, v |-> v])

ObjSet(kv, k, v) ==
    LET at == FindFirst(kv, LAMBDA e : e.k = k)
    IN IF at > 0 THEN [kv EXCEPT ![at].v = v] ELSE Append(kv, [k |-> k, v |-> v])

ObjHas(kv, k) == \E i \in 1..Len(kv) : kv[i].k = k
ObjGet(kv, k) == kv[FindFirst(kv, LAMBDA e : e.k = k)].v

RECURSIVE JsonValue(_, _)
RECURSIVE JsonElements(_, _, _)
RECURSIVE JsonMembers(_, _, _)

JsonValue(s, i0) ==
    LET i == JsonSkip(s, i0) IN
    IF i > Len(s) THEN JsonFail
    ELSE IF StartsAt(s, i, <<"n","u","l","l">>) THEN JsonOk(IRNull, i + 4)
    ELSE IF StartsAt(s, i, <<"t","r","u","e">>) THEN JsonOk(IRBool(TRUE), i + 4)
    ELSE IF StartsAt(s, i, <<"f","a","l","s","e">>) THEN JsonOk(IRBool(FALSE), i + 5)
    ELSE IF s[i] = "\"" THEN Call("JsonStringBody", <<s, i + 1, <<>>>>)
    ELSE IF s[i] = "[" 
         THEN LET j == JsonSkip(s, i + 1) IN
              IF j <= Len(s) /\ s[j] = "]" THEN JsonOk(IRArr(<<>>), j + 1)
              ELSE Call("JsonElements", <<s, j, <<>>>>)
    ELSE IF s[i] = "{"
         THEN LET j == JsonSkip(s, i + 1) IN
              IF j <= Len(s) /\ s[j] = "}" THEN JsonOk(IRObj(<<>>), j + 1)
              ELSE Call("JsonMembers", <<s, j, <<>>>>)
    ELSE Call("JsonNumber", <<s, i>>)

JsonElements(s, i, acc) ==
    LET r == Call("JsonValue", <<s, i>>)
        j == JsonSkip(s, r.i)
    IN IF ~r.ok \/ j > Len(s) THEN JsonFail
       ELSE IF s[j] = "," THEN Call("JsonElements", <<s, j + 1, Append(acc, r.v)>>)
       ELSE IF s[j] = "]" THEN JsonOk(IRArr(Append(acc, r.v)), j + 1)
       ELSE JsonFail

JsonMembers(s, i0, acc) ==
    LET i == JsonSkip(s, i0)
        k == IF i <= Len(s) /\ s[i] = "\"" THEN Call("JsonStringBody", <<s, i + 1, <<>>>>) ELSE JsonFail
        c == JsonSkip(s, k.i)
        r == IF k.ok /\ c <= Len(s) /\ s[c] = ":" THEN Call("JsonValue", <<s, c + 1>>) ELSE JsonFail
        j == JsonSkip(s, r.i)
    IN IF ~r.ok \/ j > Len(s) THEN JsonFail
       ELSE IF s[j] = "," THEN Call("JsonMembers", <<s, j + 1, ObjSet(acc, k.v.s, r.v)>>)
       ELSE IF s[j] = "}" THEN JsonOk(IRObj(ObjSet(acc, k.v.s, r.v)), j + 1)
       ELSE JsonFail

\* JSON.parse(text): ok is FALSE where it throws
JsonParse(s) ==
    LET r == Call("JsonValue", <<s, 1>>) IN
    IF r.ok /\ JsonSkip(s, r.i) > Len(s) THEN r ELSE JsonFail

\* a coercion that leaves every scalar the string of its text
keptAsString(value, quoted) == IRStr(value)

\* coerceValue(value, quoted)
coerceValue(value, quoted) ==
    LET trimmed == Trim(value) IN
    IF quoted THEN IRStr(value)
    ELSE IF trimmed \in NullWords THEN IRNull
    ELSE IF trimmed = <<>> /\ value = <<>> THEN IRStr(<<>>)
    ELSE IF trimmed \in TrueWords THEN IRBool(TRUE)
    ELSE IF trimmed \in FalseWords THEN IRBool(FALSE)
    ELSE IF IsIntegerLiteral(trimmed) /\ Call("IsSafeInteger", <<trimmed>>)
         THEN IRNum(Call("CanonicalNumber", <<trimmed>>))
    ELSE IF IsFloatLiteral(trimmed) THEN IRNum(Call("CanonicalNumber", <<trimmed>>))
    ELSE IF IsScientific(trimmed) /\ Call("SciIsFinite", <<trimmed>>)
         THEN IRNum(Call("CanonicalNumber", <<Call("SciDecimal", <<trimmed>>)>>))
    ELSE IF trimmed /= <<>> /\ Head(trimmed) = "[" /\ trimmed[Len(trimmed)] = "]"
            /\ Call("JsonParse", <<trimmed>>).ok /\ Call("JsonParse", <<trimmed>>).v.t = "arr"
         THEN Call("JsonParse", <<trimmed>>).v
    ELSE IF trimmed /= <<>> /\ Head(trimmed) = "{" /\ trimmed[Len(trimmed)] = "}"
            /\ Call("JsonParse", <<trimmed>>).ok /\ Call("JsonParse", <<trimmed>>).v.t \in {"obj", "arr"}
         THEN Call("JsonParse", <<trimmed>>).v
    ELSE IRStr(value)

\* ---- paths into an IR value: [k |-> key] into an object, [i |-> n] into an array
RECURSIVE ValueAt(_, _)
ValueAt(v, path) ==
    IF path = <<>> THEN v
    ELSE IF v.t = "obj" THEN ValueAt(ObjGet(v.kv, Head(path).k), Tail(path))
    ELSE ValueAt(v.items[Head(path).i], Tail(path))

RECURSIVE SetAt(_, _, _)
SetAt(v, path, new) ==
    IF path = <<>> THEN new
    ELSE IF v.t = "obj"
         THEN LET at == FindFirst(v.kv, LAMBDA e : e.k = Head(path).k)
              IN [v EXCEPT !.kv[at].v = SetAt(@, Tail(path), new)]
         ELSE [v EXCEPT !.items[Head(path).i] = SetAt(@, Tail(path), new)]

IsPrefix(p, q) == Len(p) <= Len(q) /\ SubSeq(q, 1, Len(p)) = p

\* registry: a Map in insertion order of [id, live, path, val]
\* a registry in which no lookup finds its id
findsNothing(reg, id) == FALSE

RegHas(reg, id) == \E i \in 1..Len(reg) : reg[i].id = id
RegSet(reg, id, path) ==
    LET at == FindFirst(reg, LAMBDA e : e.id = id)
        e == [id |-> id, live |-> TRUE, path |-> path, val |-> IRNull]
    IN IF at > 0 THEN [reg EXCEPT ![at] = e] ELSE Append(reg, e)
\* registry.get(id) as the value the object holds now
RegGet(reg, root, id) ==
    LET e == reg[FindFirst(reg, LAMBDA x : x.id = id)]
    IN IF e.live THEN ValueAt(root, e.path) ELSE e.val

\* The objects at or below `path` of `holder` leave the value (an assignment
\* replaces them): the registry keeps them as they are now.
Detach(reg, path, holderPath, holder) ==
    [ i \in 1..Len(reg) |->
        IF reg[i].live /\ IsPrefix(path, reg[i].path)
        THEN [reg[i] EXCEPT !.live = FALSE,
                            !.val = ValueAt(holder, SubSeq(reg[i].path, Len(holderPath) + 1,
                                                           Len(reg[i].path)))]
        ELSE reg[i] ]

RECURSIVE transformNode(_, _, _, _)
RECURSIVE transformEntries(_, _, _, _, _, _, _)
RECURSIVE transformItems(_, _, _, _, _, _)

\* IRBuilder.transformMapping's loop: [v, reg, nodeId]
transformEntries(nodes, entries, i, path, obj, reg, nodeId) ==
    IF i > Len(entries) THEN [v |-> obj, reg |-> reg, nodeId |-> nodeId]
    ELSE LET entry == entries[i]
             childPath == Append(path, [k |-> entry.key])
             reg0 == IF ObjHas(obj.kv, entry.key) THEN Detach(reg, childPath, path, obj) ELSE reg
             r == Call("transformNode", <<nodes, entry.value, childPath, reg0>>)
             obj1 == IRObj(ObjSet(obj.kv, entry.key, r.v))
             nodeId1 == IF entry.key = KeyId /\ r.v.t = "str"
                        THEN [has |-> TRUE, id |-> r.v.s] ELSE nodeId
         IN transformEntries(nodes, entries, i + 1, path, obj1, r.reg, nodeId1)

transformItems(nodes, items, i, path, arr, reg) ==
    IF i > Len(items) THEN [v |-> arr, reg |-> reg]
    ELSE LET r == Call("transformNode", <<nodes, items[i], Append(path, [i |-> Len(arr.items) + 1]), reg>>)
         IN transformItems(nodes, items, i + 1, path, IRArr(Append(arr.items, r.v)), r.reg)

\* IRBuilder.transformNode and the five transforms: [v, reg]
transformNode(nodes, id, path, reg) ==
    LET node == nodes[id] IN
    CASE node.kind = "scalar" -> [v |-> Call("coerceValue", <<node.value, node.quoted>>), reg |-> reg]
      [] node.kind = "mapping" ->
            LET r == transformEntries(nodes, node.entries, 1, path, EmptyObj, reg,
                                      [has |-> FALSE, id |-> <<>>])
            IN [v |-> r.v,
                reg |-> IF r.nodeId.has THEN RegSet(r.reg, r.nodeId.id, path) ELSE r.reg]
      [] node.kind = "sequence" -> transformItems(nodes, node.items, 1, path, IRArr(<<>>), reg)
      [] node.kind = "ref" ->
            [v |-> IRObj(<<[k |-> KeyDollarRef, v |-> IRStr(node.target)]>>), reg |-> reg]
      [] node.kind = "empty" ->
            [v |-> IF node.hint = "sequence" THEN IRArr(<<>>) ELSE EmptyObj, reg |-> reg]

\* IRBuilder.isRef
isRef(value) ==
    value.t = "obj" /\ ObjHas(value.kv, KeyDollarRef) /\ ObjGet(value.kv, KeyDollarRef).t = "str"

IsContainer(value) == value.t \in {"obj", "arr"}

RECURSIVE resolveRefs(_, _)
RECURSIVE resolveChildren(_, _, _, _)

\* One step of either loop of resolveRefs, on the child at `steps[i]` of the
\* container at `path`.  B is [root, reg, unresolvedRefs, visited].
resolveChildren(B, path, steps, i) ==
    IF i > Len(steps) THEN B
    ELSE LET childPath == Append(path, steps[i])
             inArray == "i" \in DOMAIN steps[i]
             child == ValueAt(B.root, childPath)
             replaced(target) ==
                 [B EXCEPT !.root = SetAt(@, childPath, RegGet(B.reg, B.root, target)),
                           !.reg = Detach(@, childPath, <<>>, B.root)]
         IN IF inArray /\ child.t = "str" /\ RegHas(B.reg, child.s)
            THEN resolveChildren(replaced(child.s), path, steps, i + 1)
            ELSE IF isRef(child)
                 THEN LET target == ObjGet(child.kv, KeyDollarRef).s IN
                      IF RegHas(B.reg, target)
                      THEN resolveChildren(replaced(target), path, steps, i + 1)
                      ELSE resolveChildren(
                               [B EXCEPT !.unresolvedRefs = Append(@, target)],
                               path, steps, i + 1)
                 ELSE resolveChildren(Call("resolveRefs", <<B, childPath>>), path, steps, i + 1)

\* IRBuilder.resolveRefs(value, visited) on the value at `path`
resolveRefs(B, path) ==
    LET value == ValueAt(B.root, path) IN
    IF ~IsContainer(value) THEN B
    ELSE IF path \in B.visited THEN B
    ELSE LET B1 == [B EXCEPT !.visited = @ \cup {path}]
             steps == IF value.t = "arr"
                      THEN [i \in 1..Len(value.items) |-> [i |-> i]]
                      ELSE [i \in 1..Len(value.kv) |-> [k |-> value.kv[i].k]]
         IN resolveChildren(B1, path, steps, 1)

\* a build that leaves the ref-only objects as they are
keepRefOnlyObjects(value) == value

\* a lifting that hands out the value under ref as it finds it
liftWithoutDescent(value) ==
    IF ~IsContainer(value) THEN value
    ELSE IF value.t = "arr"
         THEN IRArr([i \in 1..Len(value.items) |-> Call("liftRefOnlyObjects", <<value.items[i]>>)])
    ELSE IF Len(value.kv) = 1 /\ value.kv[1].k = KeyRef
         THEN value.kv[1].v
    ELSE IRObj([i \in 1..Len(value.kv) |->
                    [k |-> value.kv[i].k, v |-> Call("liftRefOnlyObjects", <<value.kv[i].v>>)]])

RECURSIVE liftRefOnlyObjects(_)
liftRefOnlyObjects(value) ==
    IF ~IsContainer(value) THEN value
    ELSE IF value.t = "arr"
         THEN IRArr([i \in 1..Len(value.items) |-> Call("liftRefOnlyObjects", <<value.items[i]>>)])
    ELSE IF Len(value.kv) = 1 /\ value.kv[1].k = KeyRef
         THEN Call("liftRefOnlyObjects", <<value.kv[1].v>>)
    ELSE IRObj([i \in 1..Len(value.kv) |->
                    [k |-> value.kv[i].k, v |-> Call("liftRefOnlyObjects", <<value.kv[i].v>>)]])

\* new IRBuilder(): the fields registry and unresolvedRefs of the instance
NewIRBuilder == [registry |-> <<>>, unresolvedRefs |-> <<>>]

\* a build that starts from what the instance holds
keptBuilder(builder) == builder

\* the first statements of build: this.registry.clear(); this.unresolvedRefs = []
clearedBuilder(builder) == NewIRBuilder

\* the fields of the instance after a build that returned ir: the registry
\* maps each id to the object registered under it
usedBuilder(ir) ==
    [registry |-> [i \in 1..Len(ir.registry) |->
                      [id |-> ir.registry[i].id, live |-> FALSE, path |-> <<>>,
                       val |-> ir.registry[i].value]],
     unresolvedRefs |-> ir.unresolvedRefs]

\* IRBuilder.build(ast) on an instance whose fields are builder; ast = 0 is null
buildOn(builder, nodes, ast) ==
    LET b == clearedBuilder(builder)
        t == IF ast = 0 THEN [v |-> IRNull, reg |-> b.registry]
             ELSE Call("transformNode", <<nodes, ast, <<>>, b.registry>>)
        B == Call("resolveRefs", <<[root |-> t.v, reg |-> t.reg,
                                    unresolvedRefs |-> b.unresolvedRefs,
                                    visited |-> {}], <<>>>>)
        value == IF t.v = IRNull THEN IRNull ELSE Call("liftRefOnlyObjects", <<B.root>>)
    IN [ value |-> IF value = IRNull THEN EmptyObj ELSE value,
         registry |-> [i \in 1..Len(B.reg) |->
                          [id |-> B.reg[i].id, value |-> RegGet(B.reg, B.root, B.reg[i].id)]],
         unresolvedRefs |-> B.unresolvedRefs,
         errors |-> <<>> ]

\* IRBuilder.build(ast) on a new instance
build(nodes, ast) == Call("buildOn", <<NewIRBuilder, nodes, ast>>)

\* ------------------------------------------------------------------------
\* Parser and streaming facade.  S holds the fields of one streaming parser:
\* the Parser's (tokenizer, tokens, pos, stack, errors, emittedIntents,
\* intentKeys, the nodes it has created), the closure variables of
\* createStreamingParser, and what the registered handlers have been handed.
\* ------------------------------------------------------------------------

DefaultIntentKeys == << <<"i","n","t","e","n","t">> >>

createInitialState == [stack |-> <<>>, errors |-> <<>>, emittedIntents |-> {}]

\* createStreamingParser(options): new Parser(options), new IRBuilder(), no handlers
\* handlerPeeks: the onIntentReady handler calls peek(), as the tool-calling example does
createStreamingParser(options, intentKeys) ==
    [ tokenizer |-> NewTokenizer(options), tokens |-> <<>>, pos |-> 0,
      stack |-> <<>>, errors |-> <<>>, emittedIntents |-> {},
      intentKeys |-> intentKeys, nodes |-> <<>>,
      events |-> <<>>,
      intentHandler |-> FALSE, handlerPeeks |-> FALSE, partialHandler |-> FALSE,
      specificHandlers |-> {}, listeners |-> {}, heard |-> <<>>,
      activeIntents |-> <<>>, intentLog |-> <<>>, partialLog |-> <<>>,
      specificLog |-> <<>>,
      debounceMs |-> 0, debounceTimer |-> 0, timers |-> {}, timerIds |-> 0 ]

Position(token) == [line |-> token.line, column |-> token.column]

\* facade.peek(): parser.peek(), then irBuilder.build(result.ast).value
FacadePeek(S) ==
    LET S1 == Call("ParserPeek", <<S>>)
    IN [s |-> S1, value |-> Call("build", <<S1.nodes, S1.stack[1].node>>).value]

\* emitPartials of createStreamingParser (no debounce)
RECURSIVE emitPartialsLoop(_, _)
emitPartialsLoop(S, i) ==
    IF i > Len(S.activeIntents) THEN S
    ELSE emitPartialsLoop(
             [S EXCEPT !.partialLog =
                 Append(@, [type |-> S.activeIntents[i].type,
                            payload |-> Call("build", <<S.nodes, S.activeIntents[i].node>>).value])],
             i + 1)

emitPartials(S) == IF ~S.partialHandler THEN S ELSE emitPartialsLoop(S, 1)

\* a scheduling that leaves the timer set before it pending
keepsPending(S) == S

\* setTimeout(emitPartials, debounceMs): timers holds the ids of the timers
\* that are pending, debounceTimer the id last returned (0 is null)
setTimeout(S) ==
    [S EXCEPT !.timerIds = @ + 1, !.timers = @ \cup {S.timerIds + 1},
              !.debounceTimer = S.timerIds + 1]

\* clearTimeout(debounceTimer)
clearTimeout(S) == [S EXCEPT !.timers = @ \ {S.debounceTimer}]

\* emitPartialsDebounced of createStreamingParser
emitPartialsDebounced(S) ==
    IF S.debounceMs > 0
    THEN setTimeout(IF S.debounceTimer /= 0 THEN clearTimeout(S) ELSE S)
    ELSE Call("emitPartials", <<S>>)

\* onIntentPartial(handler, {debounceMs}): a debounceMs of 0 is not stored
onIntentPartial(S, ms) ==
    [S EXCEPT !.partialHandler = TRUE, !.debounceMs = IF ms /= 0 THEN ms ELSE @]

\* a pending timer fires: it leaves the pending set and emitPartials runs
timerFires(S, id) == Call("emitPartials", <<[S EXCEPT !.timers = @ \ {id}]>>)

\* activeIntents.set(key, {node, type})
ActiveSet(active, key, node) ==
    LET at == FindFirst(active, LAMBDA a : a.key = key)
        e == [key |-> key, node |-> node, type |-> key]
    IN IF at > 0 THEN [active EXCEPT ![at] = e] ELSE Append(active, e)

\* activeIntents.delete(key)
ActiveDelete(active, key) == SelectSeq(active, LAMBDA a : a.key /= key)

RECURSIVE activeSetAll(_, _, _)
activeSetAll(active, entries, i) ==
    IF i > Len(entries) THEN active
    ELSE activeSetAll(ActiveSet(active, entries[i].key, entries[i].value), entries, i + 1)

\* checkForActiveIntent: the facade's listener on 'value' and 'block_end'
checkForActiveIntent(S) ==
    IF S.stack = <<>> \/ S.nodes[S.stack[1].node].kind /= "mapping" THEN S
    ELSE LET entries == S.nodes[S.stack[1].node].entries
             intentEntries == SelectSeq(entries, LAMBDA e : InSeq(e.key, S.intentKeys))
             S1 == [S EXCEPT !.activeIntents = activeSetAll(@, intentEntries, 1)]
         IN IF Len(S1.activeIntents) > 0 THEN Call("emitPartialsDebounced", <<S1>>) ELSE S1

\* The facade's listener on 'intent_ready'.  typeNull: data.type is null.
intentReadyListener(S, type, typeNull, node) ==
    LET payload == Call("build", <<S.nodes, node>>).value
        called == S.intentHandler /\ ~typeNull /\ type /= <<>>
        S1 == IF called
              THEN [S EXCEPT !.intentLog = Append(@, [type |-> type, payload |-> payload,
                                                      node |-> node])]
              ELSE S
        S2 == IF called /\ S.handlerPeeks THEN Call("FacadePeek", <<S1>>).s ELSE S1
        S3 == IF ~typeNull /\ type \in S2.specificHandlers
              THEN [S2 EXCEPT !.specificLog = Append(@, [key |-> type, payload |-> payload,
                                                        node |-> node])]
              ELSE S2
    IN IF typeNull THEN S3 ELSE [S3 EXCEPT !.activeIntents = ActiveDelete(@, type)]

\* Parser.emit: the event reaches its listeners in registration order
\* (the listeners of createStreamingParser first, then the caller's handler
\* if state.listeners holds it for this event: heard is what it was handed)
emit(S, ev) ==
    LET S1 == [S EXCEPT !.events = Append(@, ev)]
        S2 == CASE ev.type = "intent_ready" ->
                       Call("intentReadyListener", <<S1, ev.str, ev.flag, ev.num>>)
                [] ev.type \in {"value", "block_end"} -> Call("checkForActiveIntent", <<S1>>)
                [] OTHER -> S1
    IN IF ev.type \in S2.listeners THEN [S2 EXCEPT !.heard = Append(@, ev)] ELSE S2

popFrame(S, pos) ==
    LET frame == currentFrame(S)
    IN Call("emit", <<[S EXCEPT !.stack = Pop(@)], Event("block_end", <<>>, FALSE, frame.type, 0, pos)>>)

\* while (stack.length > 1) { if (top.indent <= indent) break; popFrame(pos) }
RECURSIVE popAbove(_, _, _)
popAbove(S, indent, pos) ==
    IF Len(S.stack) > 1 /\ currentFrame(S).indent > indent
    THEN popAbove(Call("popFrame", <<S, pos>>), indent, pos)
    ELSE S

RECURSIVE popAll(_, _)
popAll(S, pos) == IF Len(S.stack) > 1 THEN popAll(Call("popFrame", <<S, pos>>), pos) ELSE S

\* processIntentNode remembering what it emitted per triggering token, not per node
processIntentNodePerToken(S, node, pos) ==
    IF \E i \in 1..Len(S.events) :
           /\ S.events[i].type = "intent_ready" /\ S.events[i].num = node
           /\ S.events[i].line = pos.line /\ S.events[i].column = pos.column
    THEN S
    ELSE IF S.nodes[node].kind /= "mapping" THEN S
    ELSE LET at == FindFirst(S.nodes[node].entries, LAMBDA e : e.key = KeyType) IN
         IF at = 0 THEN S
         ELSE LET tv == S.nodes[S.nodes[node].entries[at].value]
                  isScalar == tv.kind = "scalar"
              IN Call("emit", <<[S EXCEPT !.emittedIntents = @ \cup {node}],
                      Event("intent_ready", IF isScalar THEN tv.value ELSE <<>>,
                            ~isScalar, "", node, pos)>>)

\* processIntentNode of checkIntentReady
processIntentNode(S, node, pos) ==
    IF node \in S.emittedIntents THEN S
    ELSE IF S.nodes[node].kind /= "mapping" THEN S
    ELSE LET at == FindFirst(S.nodes[node].entries, LAMBDA e : e.key = KeyType) IN
         IF at = 0 THEN S
         ELSE LET tv == S.nodes[S.nodes[node].entries[at].value]
                  isScalar == tv.kind = "scalar"
              IN Call("emit", <<[S EXCEPT !.emittedIntents = @ \cup {node}],
                      Event("intent_ready", IF isScalar THEN tv.value ELSE <<>>,
                            ~isScalar, "", node, pos)>>)

\* for (const item of seq.items) processIntentNode(item)
RECURSIVE processIntentItems(_, _, _, _)
processIntentItems(S, seq, i, pos) ==
    IF i > Len(S.nodes[seq].items) THEN S
    ELSE processIntentItems(Call("processIntentNode", <<S, S.nodes[seq].items[i], pos>>), seq, i + 1, pos)

\* entries.find(e => this.intentKeys.includes(e.key))
FindIntentEntry(entries, intentKeys) ==
    FindFirst(entries, LAMBDA e : InSeq(e.key, intentKeys))

checkIntentReady(S, pos) ==
    IF S.stack = <<>> \/ S.nodes[S.stack[1].node].kind /= "mapping" THEN S
    ELSE LET entries == S.nodes[S.stack[1].node].entries
             at == FindIntentEntry(entries, S.intentKeys)
         IN IF at = 0 THEN S
            ELSE IF S.nodes[entries[at].value].kind = "sequence"
                 THEN processIntentItems(S, entries[at].value, 1, pos)
                 ELSE Call("processIntentNode", <<S, entries[at].value, pos>>)

\* this.tokens[this.pos + 1], or NoToken for undefined
nextTokenOf(S) == IF S.pos + 2 <= Len(S.tokens) THEN S.tokens[S.pos + 2] ELSE NoToken

handleKey(S0, token, pos) ==
    LET S == Call("emit", <<S0, Event("key", token.value, FALSE, "", 0, pos)>>)
        S1 == IF ~IsMappingFrame(currentFrame(S)) THEN Call("pushFrame", <<S, "mapping", token.indent>>)
              ELSE S
        fi == Len(S1.stack)
        mappingFrame == S1.stack[fi]
    IN IF IsMappingFrame(mappingFrame)
       THEN LET S2 == IF Truthy(mappingFrame.pendingKey) /\ mappingFrame.pendingKeyPos.has
                      THEN LET A == Alloc(S1, EmptyNode("mapping",
                                                        mappingFrame.pendingKeyPos.line,
                                                        mappingFrame.pendingKeyPos.column))
                           IN Call("addMappingEntry", <<A, fi, mappingFrame.pendingKey.name, LastId(A),
                                              mappingFrame.pendingKeyPos>>)
                      ELSE S1
            IN [S2 EXCEPT !.stack[fi].pendingKey = SomeKey(token.value),
                          !.stack[fi].pendingKeyPos = SomeKeyPos(token.line, token.column)]
       ELSE S1

handleValue(S0, token, pos) ==
    LET value == token.value
        quoted == token.type = "QUOTED"
        S == Call("emit", <<S0, Event("value", value, quoted, "", 0, pos)>>)
        fi == Len(S.stack)
        frame == S.stack[fi]
        A == Alloc(S, ScalarNode(value, quoted, token.line, token.column))
    IN IF IsMappingFrame(frame)
       THEN IF Truthy(frame.pendingKey)
            THEN ClearPendingKey(
                     Call("addMappingEntry", <<A, fi, frame.pendingKey.name, LastId(A),
                                     frame.pendingKeyPos>>), fi)
            ELSE S
       ELSE IF frame.type = "sequence"
            THEN [A EXCEPT !.nodes[frame.node].items = Append(@, LastId(A))]
            ELSE S

\* the item pushed for a dash: a mapping when a KEY follows, a sequence when a
\* DASH follows, nothing before a scalar
pushDashItem(S, seq, token, isKeyItem, isDashItem) ==
    IF isKeyItem \/ isDashItem
    THEN LET A == Alloc(S, IF isKeyItem THEN MappingNode(token.line, token.column)
                           ELSE SequenceNode(token.line, token.column))
         IN [A EXCEPT !.nodes[seq].items = Append(@, LastId(A)),
                      !.stack = Append(@, Frame(IF isKeyItem THEN "mapping" ELSE "sequence",
                                                LastId(A), token.indent + 1))]
    ELSE S

handleDash(S0, token, pos) ==
    LET S == popAbove(Call("emit", <<S0, Event("block_start", <<>>, FALSE, "sequence_item", 0, pos)>>),
                      token.indent, pos)
        fi == Len(S.stack)
        frame == S.stack[fi]
        nextToken == nextTokenOf(S)
        isKeyItem == nextToken.type = "KEY"
        isDashItem == nextToken.type = "DASH"
    IN IF IsMappingFrame(frame) /\ Truthy(frame.pendingKey)
       THEN LET A == Alloc(S, SequenceNode(token.line, token.column))
                seqNode == LastId(A)
                S1 == ClearPendingKey(
                          Call("addMappingEntry", <<A, fi, frame.pendingKey.name, seqNode,
                                          frame.pendingKeyPos>>), fi)
                S2 == [S1 EXCEPT !.stack = Append(@, Frame("sequence", seqNode, token.indent))]
            IN pushDashItem(S2, seqNode, token, isKeyItem, isDashItem)
       ELSE IF frame.type = "sequence"
            THEN pushDashItem(S, frame.node, token, isKeyItem, isDashItem)
       ELSE IF frame.type = "root"
            THEN LET A == Alloc(S, SequenceNode(token.line, token.column))
                 IN [A EXCEPT !.stack[fi].node = LastId(A), !.stack[fi].type = "sequence"]
       ELSE S

handleIndent(S0, token, pos) ==
    LET S == Call("emit", <<S0, Event("indent", <<>>, FALSE, "", token.indent, pos)>>)
        fi == Len(S.stack)
        frame == S.stack[fi]
    IN IF IsMappingFrame(frame) /\ Truthy(frame.pendingKey)
       THEN IF nextTokenOf(S).type = "DASH" THEN S
            ELSE LET A == Alloc(S, MappingNode(token.line, token.column))
                     S1 == ClearPendingKey(
                               Call("addMappingEntry", <<A, fi, frame.pendingKey.name, LastId(A),
                                               frame.pendingKeyPos>>), fi)
                 IN [S1 EXCEPT !.stack = Append(@, Frame("mapping", LastId(A), token.indent))]
       ELSE S

handleDedent(S0, token, pos) ==
    LET S == Call("emit", <<S0, Event("dedent", <<>>, FALSE, "", token.indent, pos)>>)
    IN Call("checkIntentReady", <<popAbove(S, token.indent, pos), pos>>)

handleNewline(S0, token, pos) ==
    LET S == Call("emit", <<S0, Event("line", <<>>, FALSE, "", 0, pos)>>)
        fi == Len(S.stack)
        frame == S.stack[fi]
    IN IF IsMappingFrame(frame) /\ Truthy(frame.pendingKey)
          /\ nextTokenOf(S).type \in {"DEDENT", "EOF"}
       THEN LET A == Alloc(S, EmptyNode("mapping", token.line, token.column))
            IN ClearPendingKey(
                   Call("addMappingEntry", <<A, fi, frame.pendingKey.name, LastId(A),
                                   frame.pendingKeyPos>>), fi)
       ELSE S

handleEOF(S0, pos) ==
    LET S == popAll(S0, pos)
        rootFrame == S.stack[1]
        S1 == IF Truthy(rootFrame.pendingKey)
              THEN LET A == Alloc(S, EmptyNode("mapping", pos.line, pos.column))
                   IN [Call("addMappingEntry", <<A, 1, rootFrame.pendingKey.name, LastId(A),
                                       rootFrame.pendingKeyPos>>)
                         EXCEPT !.stack[1].pendingKey = NoKey]
              ELSE S
    IN Call("checkIntentReady", <<S1, pos>>)

processToken(S, token) ==
    LET pos == Position(token) IN
    CASE token.type = "KEY" -> Call("handleKey", <<S, token, pos>>)
      [] token.type = "COLON" -> S
      [] token.type \in {"SCALAR", "QUOTED"} -> Call("handleValue", <<S, token, pos>>)
      [] token.type = "DASH" -> Call("handleDash", <<S, token, pos>>)
      [] token.type = "INDENT" -> Call("handleIndent", <<S, token, pos>>)
      [] token.type = "DEDENT" -> Call("handleDedent", <<S, token, pos>>)
      [] token.type = "NEWLINE" -> Call("handleNewline", <<S, token, pos>>)
      [] token.type = "EOF" -> Call("handleEOF", <<S, pos>>)
      [] token.type = "COMMENT" -> Call("emit", <<S, Event("line", token.value, FALSE, "comment", 0, pos)>>)

\* while (this.pos < this.tokens.length) { processToken(tokens[pos]); this.pos++ }
RECURSIVE parseLoop(_)
parseLoop(S) ==
    IF S.pos < Len(S.tokens)
    THEN LET S1 == Call("processToken", <<S, S.tokens[S.pos + 1]>>)
         IN parseLoop([S1 EXCEPT !.pos = @ + 1])
    ELSE S

\* Parser.parseTokens: the result's ast is the root frame's node, stack[1].node
parseTokens(S) ==
    LET first == FindFirst(S.tokens, LAMBDA t : t.type /= "COMMENT" /\ t.type /= "NEWLINE")
        isRootSequence == first > 0 /\ S.tokens[first].type = "DASH"
        S1 == IF S.stack = <<>>
              THEN Call("pushFrame", <<S, IF isRootSequence THEN "sequence" ELSE "root", 0>>)
              ELSE S
    IN parseLoop(S1)

drainInto(S) ==
    LET d == drain(S.tokenizer, <<>>)
    IN [S EXCEPT !.tokenizer = d.tk, !.tokens = @ \o d.tokens]

\* Parser.write(chunk), which is all the facade's write does
ParserWrite(S, chunk) ==
    Call("parseTokens", <<drainInto([S EXCEPT !.tokenizer = TokenizerWrite(@, chunk)])>>)

\* peek() that backs the cursor up by two tokens before it parses
ParserPeekBackingUp(S) ==
    Call("parseTokens", <<drainInto([S EXCEPT !.pos = IF @ >= 2 THEN @ - 2 ELSE 0])>>)

ParserPeek(S) == Call("parseTokens", <<drainInto(S)>>)

ParserEnd(S) ==
    LET S1 == drainInto(S)
        f == Call("finalize", <<S1.tokenizer>>)
    IN Call("parseTokens", <<[S1 EXCEPT !.tokenizer = f.tk, !.tokens = @ \o f.tokens]>>)

\* facade.end(): parser.end(), then irBuilder.build(result.ast).value
FacadeEnd(S) ==
    LET S1 == Call("ParserEnd", <<S>>)
    IN [s |-> S1, value |-> Call("build", <<S1.nodes, S1.stack[1].node>>).value]

\* a reset() that leaves the set of already-emitted intents in place
FacadeResetKeepingIntents(S) ==
    [S EXCEPT !.tokenizer = TokenizerReset(@), !.tokens = <<>>, !.pos = 0,
              !.stack = <<>>, !.errors = <<>>, !.activeIntents = <<>>]

\* facade.reset(): parser.reset() keeps the listeners; activeIntents.clear()
FacadeReset(S) ==
    [S EXCEPT !.tokenizer = TokenizerReset(@), !.tokens = <<>>, !.pos = 0,
              !.stack = <<>>, !.errors = <<>>, !.emittedIntents = {},
              !.activeIntents = <<>>]

\* Parser.on(event, handler) and Parser.off(event, handler), for the handler
\* of the caller
ParserOn(S, event) == [S EXCEPT !.listeners = @ \cup {event}]
ParserOff(S, event) == [S EXCEPT !.listeners = @ \ {event}]

\* facade.on(event, handler)
FacadeOn(S, event) ==
    IF event = "intent_ready" THEN [S EXCEPT !.intentHandler = TRUE]
    ELSE IF event = "intent_partial" THEN [S EXCEPT !.partialHandler = TRUE]
    ELSE ParserOn(S, event)

\* facade.off(event, handler): parser.off(event, handler)
FacadeOff(S, event) == ParserOff(S, event)

\* the parser stream parses second, and the instance builder builds its tree
buildAgain(builder, stream, second) ==
    LET S == Call("ParserEnd", <<Call("ParserWrite", <<stream, second>>)>>)
    IN [s |-> S, ir |-> Call("buildOn", <<builder, S.nodes, S.stack[1].node>>)]

\* parseToJSON-style whole parse on a fresh streaming parser: write(S), end()
ParseWhole(input, options, intentKeys) ==
    Call("FacadeEnd", <<Call("ParserWrite", <<createStreamingParser(options, intentKeys), input>>)>>)

\* Call(f, a): the function or method named f applied to the arguments a
Call(f, a) ==
    CASE f = "tokenizeNewline" -> tokenizeNewline(a[1])
      [] f = "tokenizeComment" -> tokenizeComment(a[1])
      [] f = "tokenizeQuotedString" -> tokenizeQuotedString(a[1], a[2])
      [] f = "tokenizeFlowCollection" -> tokenizeFlowCollection(a[1], a[2])
      [] f = "tokenizeKeyOrScalar" -> tokenizeKeyOrScalar(a[1])
      [] f = "tokenizeMultilineString" -> tokenizeMultilineString(a[1])
      [] f = "tokenizeContent" -> tokenizeContent(a[1])
      [] f = "tokenizeLineStart" -> tokenizeLineStart(a[1])
      [] f = "next" -> next(a[1])
      [] f = "finalize" -> finalize(a[1])
      [] f = "coerceValue" -> coerceValue(a[1], a[2])
      [] f = "buildOn" -> buildOn(a[1], a[2], a[3])
      [] f = "buildAgain" -> buildAgain(a[1], a[2], a[3])
      [] f = "transformNode" -> transformNode(a[1], a[2], a[3], a[4])
      [] f = "resolveRefs" -> resolveRefs(a[1], a[2])
      [] f = "liftRefOnlyObjects" -> liftRefOnlyObjects(a[1])
      [] f = "build" -> build(a[1], a[2])
      [] f = "pushFrame" -> pushFrame(a[1], a[2], a[3])
      [] f = "popFrame" -> popFrame(a[1], a[2])
      [] f = "addMappingEntry" -> addMappingEntry(a[1], a[2], a[3], a[4], a[5])
      [] f = "emit" -> emit(a[1], a[2])
      [] f = "checkIntentReady" -> checkIntentReady(a[1], a[2])
      [] f = "processIntentNode" -> processIntentNode(a[1], a[2], a[3])
      [] f = "handleKey" -> handleKey(a[1], a[2], a[3])
      [] f = "handleValue" -> handleValue(a[1], a[2], a[3])
      [] f = "handleDash" -> handleDash(a[1], a[2], a[3])
      [] f = "handleIndent" -> handleIndent(a[1], a[2], a[3])
      [] f = "handleDedent" -> handleDedent(a[1], a[2], a[3])
      [] f = "handleNewline" -> handleNewline(a[1], a[2], a[3])
      [] f = "handleEOF" -> handleEOF(a[1], a[2])
      [] f = "processToken" -> processToken(a[1], a[2])
      [] f = "parseTokens" -> parseTokens(a[1])
      [] f = "ParserWrite" -> ParserWrite(a[1], a[2])
      [] f = "ParserPeek" -> ParserPeek(a[1])
      [] f = "ParserEnd" -> ParserEnd(a[1])
      [] f = "FacadePeek" -> FacadePeek(a[1])
      [] f = "FacadeEnd" -> FacadeEnd(a[1])
      [] f = "emitPartials" -> emitPartials(a[1])
      [] f = "emitPartialsDebounced" -> emitPartialsDebounced(a[1])
      [] f = "checkForActiveIntent" -> checkForActiveIntent(a[1])
      [] f = "intentReadyListener" -> intentReadyListener(a[1], a[2], a[3], a[4])
      [] f = "SciParts" -> SciParts(a[1])
      [] f = "SciDecimal" -> SciDecimal(a[1])
      [] f = "SciIsFinite" -> SciIsFinite(a[1])
      [] f = "CanonicalNumber" -> CanonicalNumber(a[1])
      [] f = "IsSafeInteger" -> IsSafeInteger(a[1])
      [] f = "JsonParse" -> JsonParse(a[1])
      [] f = "JsonValue" -> JsonValue(a[1], a[2])
      [] f = "JsonElements" -> JsonElements(a[1], a[2], a[3])
      [] f = "JsonMembers" -> JsonMembers(a[1], a[2], a[3])
      [] f = "JsonNumber" -> JsonNumber(a[1], a[2])
      [] f = "JsonStringBody" -> JsonStringBody(a[1], a[2], a[3])

\* ------------------------------------------------------------------------
\* Documents streamed to the parser
\* ------------------------------------------------------------------------

\* intent:
LineIntent ==
    <<"i", "n", "t", "e", "n", "t", ":">>

\*   type: a
LineType ==
    <<SP, SP, "t", "y", "p", "e", ":", SP, "a">>

\* ui:
LineUi ==
    <<"u", "i", ":">>

\*   - type: b
LineItem ==
    <<SP, SP, "-", SP, "t", "y", "p", "e", ":", SP, "b">>

\* - x
LineDash ==
    <<"-", SP, "x">>

\* k: "v w" # c
LineQuoted ==
    <<"k", ":", SP, "\"", "v", SP, "w", "\"", SP, "#", SP, "c">>

\*     q: 1
LineNested ==
    <<SP, SP, SP, SP, "q", ":", SP, "1">>

\* intent:\n  type: tool_call\n  name: search\n
ScenarioS1 ==
    <<"i", "n", "t", "e", "n", "t", ":", NL, SP, SP, "t", "y", "p", "e", ":", SP, "t", "o",
      "o", "l", "_", "c", "a", "l", "l", NL, SP, SP, "n", "a", "m", "e", ":", SP, "s", "e",
      "a", "r", "c", "h", NL>>

\* intent:\n  - type: search\n    q: a\n  - type: fetch\n    id: x\n
ScenarioS5 ==
    <<"i", "n", "t", "e", "n", "t", ":", NL, SP, SP, "-", SP, "t", "y", "p", "e", ":", SP,
      "s", "e", "a", "r", "c", "h", NL, SP, SP, SP, SP, "q", ":", SP, "a", NL, SP, SP, "-",
      SP, "t", "y", "p", "e", ":", SP, "f", "e", "t", "c", "h", NL, SP, SP, SP, SP, "i",
      "d", ":", SP, "x", NL>>

\* description: |\n  line one\n  line two\nnext: end\n
ScenarioS6 ==
    <<"d", "e", "s", "c", "r", "i", "p", "t", "i", "o", "n", ":", SP, "|", NL, SP, SP, "l",
      "i", "n", "e", SP, "o", "n", "e", NL, SP, SP, "l", "i", "n", "e", SP, "t", "w", "o",
      NL, "n", "e", "x", "t", ":", SP, "e", "n", "d", NL>>

\* config:\n  database:\n  cache:\n
ScenarioEmptyBlocks ==
    <<"c", "o", "n", "f", "i", "g", ":", NL, SP, SP, "d", "a", "t", "a", "b", "a", "s",
      "e", ":", NL, SP, SP, "c", "a", "c", "h", "e", ":", NL>>

\* intent:\n  type: tool_call\n  args:\n    q: x\n  name: search\n
ScenarioToolCall ==
    <<"i", "n", "t", "e", "n", "t", ":", NL, SP, SP, "t", "y", "p", "e", ":", SP, "t", "o",
      "o", "l", "_", "c", "a", "l", "l", NL, SP, SP, "a", "r", "g", "s", ":", NL, SP, SP,
      SP, SP, "q", ":", SP, "x", NL, SP, SP, "n", "a", "m", "e", ":", SP, "s", "e", "a",
      "r", "c", "h", NL>>

\* intent:\n  type: a\nui:\n  type: b\n
ScenarioTwoIntents ==
    <<"i", "n", "t", "e", "n", "t", ":", NL, SP, SP, "t", "y", "p", "e", ":", SP, "a", NL,
      "u", "i", ":", NL, SP, SP, "t", "y", "p", "e", ":", SP, "b", NL>>

\* tags: [1, 2]\nopts: {"a": 1}\n
ScenarioFlow ==
    <<"t", "a", "g", "s", ":", SP, "[", "1", ",", SP, "2", "]", NL, "o", "p", "t", "s",
      ":", SP, "{", "\"", "a", "\"", ":", SP, "1", "}", NL>>

\* intent:\n  - type: a\n    args:\n      q: x\n    name: s\n
ScenarioToolList ==
    <<"i", "n", "t", "e", "n", "t", ":", NL, SP, SP, "-", SP, "t", "y", "p", "e", ":", SP,
      "a", NL, SP, SP, SP, SP, "a", "r", "g", "s", ":", NL, SP, SP, SP, SP, SP, SP, "q",
      ":", SP, "x", NL, SP, SP, SP, SP, "n", "a", "m", "e", ":", SP, "s", NL>>

MaxLines == 1
MaxChunk == 3

Lines == {LineIntent, LineType, LineUi, LineItem, LineDash, LineQuoted, LineNested}

Scenarios ==
    {ScenarioS1, ScenarioS5, ScenarioS6, ScenarioEmptyBlocks, ScenarioToolCall,
     ScenarioTwoIntents, ScenarioFlow, ScenarioToolList}

RECURSIVE LineDocs(_)
\* every document of n lines drawn from Lines, each ended by a newline
LineDocs(n) ==
    IF n = 0 THEN {<<>>}
    ELSE {d \o l \o <<NL>> : d \in LineDocs(n - 1), l \in Lines}

\* ... and the same documents without the final newline
Docs ==
    LET ended == UNION {LineDocs(n) : n \in 1..MaxLines} \cup Scenarios
    IN ended \cup {SubSeq(d, 1, Len(d) - 1) : d \in ended}

\* intentKey: ['intent', 'ui']
IntentKeys == << <<"i","n","t","e","n","t">>, <<"u","i">> >>

\* onIntent(intent, handler): specificHandlers.set(intent, handler)
onIntent(S, intent) == [S EXCEPT !.specificHandlers = @ \cup {intent}]

\* createStreamingParser(options) followed by onIntentReady(handler) and by
\* onIntent(key, handler) for each of the intent keys
NewStream(handlerPeeks) ==
    LET S == [createStreamingParser(DefaultOptions, IntentKeys)
                 EXCEPT !.intentHandler = TRUE, !.handlerPeeks = handlerPeeks]
    IN onIntent(onIntent(S, IntentKeys[1]), IntentKeys[2])

\* ------------------------------------------------------------------------
\* The state machine: a producer streams doc to the parser sp in chunks,
\* calling peek() between writes, end() at any point, and reset().  plain is
\* a second parser fed the same chunks whose owner never calls peek().
\* ------------------------------------------------------------------------

VARIABLES doc, sent, sp, plain, phase, result

vars == <<doc, sent, sp, plain, phase, result>>

\* result: the last call made on sp and, for peek() and end(), the value it
\* returned; again: the call before it was a peek() too
NoResult == [op |-> "none", value |-> EmptyObj, again |-> FALSE]

Init ==
    /\ doc \in Docs
    /\ sent = 0
    /\ \E handlerPeeks \in BOOLEAN : sp = NewStream(handlerPeeks)
    /\ plain = NewStream(FALSE)
    /\ phase = "open"
    /\ result = NoResult

\* stream.write(chunk) with the next n characters of doc
Write(n) ==
    /\ phase = "open"
    /\ sent + n <= Len(doc)
    /\ LET chunk == SubSeq(doc, sent + 1, sent + n) IN
       /\ sp' = Call("ParserWrite", <<sp, chunk>>)
       /\ plain' = Call("ParserWrite", <<plain, chunk>>)
    /\ sent' = sent + n
    /\ result' = [op |-> "write", value |-> EmptyObj, again |-> FALSE]
    /\ UNCHANGED <<doc, phase>>

\* stream.write(chunk) with all of doc that is left
WriteRest == sent < Len(doc) /\ Write(Len(doc) - sent)

\* stream.peek(), by a consumer whose onIntentReady handler does not itself peek
Peek ==
    /\ phase = "open"
    /\ ~sp.handlerPeeks
    /\ LET r == Call("FacadePeek", <<sp>>) IN
       /\ sp' = r.s
       /\ result' = [op |-> "peek", value |-> r.value, again |-> result.op = "peek"]
    /\ UNCHANGED <<doc, sent, plain, phase>>

\* stream.end()
End ==
    /\ phase = "open"
    /\ LET r == Call("FacadeEnd", <<sp>>) IN
       /\ sp' = r.s
       /\ result' = [op |-> "end", value |-> r.value, again |-> FALSE]
    /\ plain' = Call("FacadeEnd", <<plain>>).s
    /\ phase' = "ended"
    /\ UNCHANGED <<doc, sent>>

\* What the handlers have been handed since the last reset; the nodes of the
\* tree before the reset are unreachable and are dropped with it.
SinceReset(S) ==
    [S EXCEPT !.events = <<>>, !.intentLog = <<>>, !.partialLog = <<>>,
              !.specificLog = <<>>, !.heard = <<>>, !.nodes = <<>>]

\* stream.reset(); the producer then streams doc again.  result.dropped
\* notes what the parser held when it was reset
Reset ==
    /\ sp' = SinceReset(FacadeReset(sp))
    /\ plain' = SinceReset(FacadeReset(plain))
    /\ sent' = 0
    /\ phase' = "open"
    /\ result' = [op |-> "reset", value |-> EmptyObj, again |-> FALSE,
                  dropped |-> [tokens |-> plain.tokens /= <<>>,
                               frames |-> plain.stack /= <<>>,
                               intents |-> plain.emittedIntents /= {}]]
    /\ UNCHANGED doc

Next ==
    \/ \E n \in 1..MaxChunk : Write(n)
    \/ WriteRest
    \/ Peek
    \/ End
    \/ Reset

Spec == Init /\ [][Next]_vars

\* ------------------------------------------------------------------------
\* Properties
\* ------------------------------------------------------------------------

\* the part of doc written so far
Written == SubSeq(doc, 1, sent)

\* the value end() returns for the tree S has built
ValueOf(S) == Call("build", <<S.nodes, S.stack[1].node>>).value

\* a fresh parser given the whole input in a single write, then end()
Whole(input) == Call("FacadeEnd", <<Call("ParserWrite", <<NewStream(FALSE), input>>)>>)

\* C1 -- Streaming equivalence: however the written input was cut into
\* chunks, end() returns the value that a single write of that input followed
\* by end() returns.
StreamingEquivalence ==
    phase = "ended" => ValueOf(plain) = Whole(Written).value

\* C2 -- Token stability: every token the tokenizer has handed out before
\* finalize() has the type and the text of the token at that place in the
\* tokenization of the whole input.
TokenStability ==
    phase = "open" =>
        LET whole == tokenize(doc, DefaultOptions) IN
        \A i \in 1..Len(plain.tokens) :
            /\ i <= Len(whole)
            /\ plain.tokens[i].type = whole[i].type
            /\ plain.tokens[i].value = whole[i].value

\* C3 -- peek() has no side effects: a parser that is peeked between writes
\* emits the events, and returns from end() the value, of a parser fed the
\* same chunks and never peeked.
PeekNoSideEffects ==
    ~sp.handlerPeeks =>
        /\ sp.events = plain.events
        /\ phase = "ended" => result.value = ValueOf(plain)

\* C4 -- Idempotent peek: a peek() that directly follows a peek(), with no
\* write between them, returns a value equal to the one before.
IdempotentPeek ==
    [][(result.op = "peek" /\ result'.op = "peek") => result'.value = result.value]_vars

\* two consecutive peeks of a tree that holds something
IdempotentPeekWitness ==
    result.op = "peek" /\ result.again /\ result.value /= EmptyObj /\ sent > 0

IntentReadyNodes(S) ==
    SelectSeq(S.events, LAMBDA e : e.type = "intent_ready")

NoDuplicateIntent(S) ==
    LET ready == IntentReadyNodes(S) IN
    \A i \in 1..Len(ready) : \A j \in 1..Len(ready) :
        i /= j => ready[i].num /= ready[j].num

\* C5 -- At-most-once intent emission: since the last reset, no two
\* intent_ready events carry the same AST node, whatever the chunking and
\* whether or not the parser is peeked.
IntentAtMostOnce ==
    NoDuplicateIntent(sp) /\ NoDuplicateIntent(plain)

\* an intent node has been emitted and a Dedent was processed after it
IntentAtMostOnceWitness ==
    \E i \in 1..Len(plain.events) : \E j \in (i + 1)..Len(plain.events) :
        /\ plain.events[i].type = "intent_ready"
        /\ plain.events[j].type = "dedent"

\* the value end() returns for the subtree at node
SubtreeValue(S, node) == Call("build", <<S.nodes, node>>).value

\* C6 -- intent_ready fires on structural closure: the payload each
\* onIntentReady call was handed is that intent's subtree as it stands when
\* end() has returned; nothing was added to the node after its emission.
IntentReadyOnClosure ==
    phase = "ended" =>
        \A i \in 1..Len(plain.intentLog) :
            plain.intentLog[i].payload = SubtreeValue(plain, plain.intentLog[i].node)

\* node is a mapping whose `type` entry is a scalar
HasScalarType(S, node) ==
    /\ S.nodes[node].kind = "mapping"
    /\ \E i \in 1..Len(S.nodes[node].entries) :
           /\ S.nodes[node].entries[i].key = KeyType
           /\ S.nodes[S.nodes[node].entries[i].value].kind = "scalar"

\* the entries of the root mapping (none when the root is a sequence)
RootEntries(S) ==
    IF S.nodes[S.stack[1].node].kind = "mapping" THEN S.nodes[S.stack[1].node].entries
    ELSE <<>>

\* C7 -- Intent completeness: when end() has returned, intent_ready has been
\* emitted for every root entry under a configured intent key whose value is
\* a mapping with a scalar type.
IntentCompleteness ==
    phase = "ended" =>
        \A i \in 1..Len(RootEntries(plain)) :
            LET e == RootEntries(plain)[i] IN
            (InSeq(e.key, plain.intentKeys) /\ HasScalarType(plain, e.value)) =>
                \E j \in 1..Len(plain.events) :
                    plain.events[j].type = "intent_ready" /\ plain.events[j].num = e.value

\* C8 -- Intent as list: when end() has returned, for every sequence under an
\* intent key the handler calls for its items are exactly its items that are
\* mappings with a scalar type, once each and in item order, each with the
\* item's subtree as payload.
IntentAsList ==
    phase = "ended" =>
        \A i \in 1..Len(RootEntries(plain)) :
            LET e == RootEntries(plain)[i] IN
            (InSeq(e.key, plain.intentKeys) /\ plain.nodes[e.value].kind = "sequence") =>
                LET items == plain.nodes[e.value].items
                    due == SelectSeq(items, LAMBDA n : HasScalarType(plain, n))
                    calls == SelectSeq(plain.intentLog, LAMBDA c : InSeq(c.node, items))
                IN /\ Len(calls) = Len(due)
                   /\ \A k \in 1..Len(due) :
                          /\ calls[k].node = due[k]
                          /\ calls[k].payload = SubtreeValue(plain, due[k])

\* C9 -- Re-entrant peek: a parser whose onIntentReady handler calls peek()
\* emits the events, and returns from end() the value, of a parser fed the
\* same chunks whose handler does not.
ReentrantPeek ==
    sp.handlerPeeks =>
        /\ sp.events = plain.events
        /\ phase = "ended" => result.value = ValueOf(plain)

\* the nodes of the tree below and including node
RECURSIVE Descendants(_, _)
Descendants(nodes, node) ==
    LET n == nodes[node]
        children == IF n.kind = "mapping" THEN {n.entries[i].value : i \in 1..Len(n.entries)}
                    ELSE IF n.kind = "sequence" THEN {n.items[i] : i \in 1..Len(n.items)}
                    ELSE {}
    IN {node} \cup UNION {Descendants(nodes, c) : c \in children}

\* tokens[i] is a key with no value on its line and no block under it: what
\* follows, past the colon, line ends and comments, is the next key of the
\* same block, or the end of the block or of the input
IsEmptyKey(tokens, i) ==
    /\ tokens[i].type = "KEY"
    /\ \E j \in (i + 1)..Len(tokens) :
           /\ tokens[j].type \in {"KEY", "DEDENT", "EOF"}
           /\ \A k \in (i + 1)..(j - 1) : tokens[k].type \in {"COLON", "NEWLINE", "COMMENT"}

\* every key of S whose value block never materialised is an entry of a
\* mapping of the tree, with the value {}
EmptyKeysKept(S) ==
    \A i \in 1..Len(S.tokens) :
        IsEmptyKey(S.tokens, i) =>
            \E n \in Descendants(S.nodes, S.stack[1].node) :
                /\ S.nodes[n].kind = "mapping"
                /\ \E e \in 1..Len(S.nodes[n].entries) :
                       LET entry == S.nodes[n].entries[e] IN
                       /\ entry.key = S.tokens[i].value
                       /\ entry.line = S.tokens[i].line
                       /\ entry.column = S.tokens[i].column
                       /\ SubtreeValue(S, entry.value) = EmptyObj

\* C10 -- Empty blocks: when end() has returned a mapping, every key whose
\* value block never materialised is in it, at its depth, with the value {}.
EmptyBlocks ==
    (phase = "ended" /\ plain.nodes[plain.stack[1].node].kind = "mapping") =>
        EmptyKeysKept(plain)

\* ---------------------------------------------------------------------
\* Partial documents

\* the last line of text: the characters after the newline before its final one
LastLineStart(text) ==
    LET ends == {i \in 1..(Len(text) - 1) : text[i] = NL}
    IN IF ends = {} THEN 1 ELSE (CHOOSE i \in ends : \A j \in ends : j <= i) + 1

\* the key of a line `key:` + newline that starts at column 0 and holds
\* nothing else; <<>> if the text does not end with such a line
TrailingRootKey(text) ==
    IF Len(text) < 3 \/ text[Len(text)] /= NL \/ text[Len(text) - 1] /= ":"
    THEN <<>>
    ELSE LET key == SubSeq(text, LastLineStart(text), Len(text) - 2)
         IN IF key /= <<>> /\ \A i \in 1..Len(key) :
                   key[i] \notin {SP, TAB, CR, ":", "-", "#", "\"", "'", "[", "{", "|"}
            THEN key ELSE <<>>

\* C11: after the write of a line `key:` + newline that has no value yet, a
\* peek() that returns an object returns one in which key is present and
\* mapped to {}
PartialKeyInPeek ==
    (result.op = "peek" /\ result.value.t = "obj" /\ TrailingRootKey(Written) /= <<>>)
        => /\ ObjHas(result.value.kv, TrailingRootKey(Written))
           /\ ObjGet(result.value.kv, TrailingRootKey(Written)) = EmptyObj

\* ---------------------------------------------------------------------
\* reset()

addError(S, message, line, column) ==
    [S EXCEPT !.errors = Append(@, [message |-> message, severity |-> "error",
                                    line |-> line, column |-> column])]

\* validate(input): new Parser, write(input), end(); true if the result's
\* errors list is empty, the list otherwise
validate(input, options) ==
    LET S == Call("ParserEnd",
                  <<Call("ParserWrite", <<createStreamingParser(options, DefaultIntentKeys), input>>)>>)
    IN IF Len(S.errors) = 0 THEN [valid |-> TRUE, errors |-> <<>>]
       ELSE [valid |-> FALSE, errors |-> S.errors]

\* a double-quoted scalar of the text is not closed before the text ends
\* (the documents hold no escaped and no single quotes)
UnterminatedQuote(text) ==
    Cardinality({i \in 1..Len(text) : text[i] = "\""}) % 2 = 1

\* C13: when the text given to the parser holds an unterminated quoted
\* scalar, end() returns a non-empty errors list and validate() returns
\* that list, not true
StructuralDiagnostics ==
    (phase = "ended" /\ UnterminatedQuote(Written))
        => /\ plain.errors /= <<>>
           /\ ~validate(Written, DefaultOptions).valid

\* ---------------------------------------------------------------------
\* No exceptions

\* The statements of the parser that raise a TypeError when their object is
\* undefined find it defined: currentFrame() has a frame once a call has
\* parsed, a frame's node is of the frame's kind (addMappingEntry pushes to
\* node.entries, handleValue to node.items), a pending key has its position
\* (frame.pendingKeyPos!), and every node reference is to a node.
Defined(S) ==
    /\ S.stack /= <<>>
    /\ \A i \in 1..Len(S.stack) :
          LET frame == S.stack[i]
          IN /\ frame.node \in 1..Len(S.nodes)
             /\ frame.type \in {"mapping", "sequence"}
             /\ S.nodes[frame.node].kind = frame.type
             /\ frame.pendingKey.has => frame.pendingKeyPos.has
    /\ \A n \in 1..Len(S.nodes) :
          /\ S.nodes[n].kind = "mapping" =>
                \A e \in 1..Len(S.nodes[n].entries) :
                    S.nodes[n].entries[e].value \in 1..Len(S.nodes)
          /\ S.nodes[n].kind = "sequence" =>
                \A e \in 1..Len(S.nodes[n].items) :
                    S.nodes[n].items[e] \in 1..Len(S.nodes)

StructuralEvents(events) ==
    SelectSeq(events, LAMBDA e : e.type \in {"key", "value", "block_start", "block_end"})

\* the events a new parser delivers during write(input)
EventsOfWrite(input) == Call("ParserWrite", <<NewStream(FALSE), input>>).events

\* C15: the key, value, block_start and block_end events emitted while
\* writing a proper prefix P of a document Q are a prefix of those emitted
\* while writing Q (P is the part of doc written so far, Q is doc)
MonotonicEvents ==
    sent < Len(doc) =>
        IsPrefix(StructuralEvents(EventsOfWrite(Written)),
                 StructuralEvents(EventsOfWrite(doc)))

\* what a key or value event says, or a KEY, SCALAR or QUOTED token calls for
Said(type, str, line, column) ==
    [type |-> type, str |-> str, line |-> line, column |-> column]

KeyValueEvents(S) ==
    LET kv == SelectSeq(S.events, LAMBDA e : e.type \in {"key", "value"})
    IN [i \in 1..Len(kv) |-> Said(kv[i].type, kv[i].str, kv[i].line, kv[i].column)]

KeyValueTokens(S) ==
    LET kv == SelectSeq(S.tokens, LAMBDA t : t.type \in {"KEY", "SCALAR", "QUOTED"})
    IN [i \in 1..Len(kv) |->
           Said(IF kv[i].type = "KEY" THEN "key" ELSE "value",
                kv[i].value, kv[i].line, kv[i].column)]

\* C16: when a write or end call returns, the key and value events delivered
\* so far are, in order, one key event per KEY token and one value event
\* per SCALAR or QUOTED token of all the tokens produced so far
EventOrdering ==
    /\ KeyValueEvents(plain) = KeyValueTokens(plain)
    /\ result.op \in {"write", "end"} => KeyValueEvents(sp) = KeyValueTokens(sp)

\* ---------------------------------------------------------------------
\* Root-level sequence

\* the first token of the text that is neither a comment nor a newline is
\* a DASH (the test of Parser.parseTokens, applied to the whole text)
StartsWithDash(text) ==
    LET tokens == tokenize(text, DefaultOptions)
        first == FindFirst(tokens, LAMBDA t : t.type /= "COMMENT" /\ t.type /= "NEWLINE")
    IN first /= 0 /\ tokens[first].type = "DASH"

\* C17: a document whose first structural token is a Dash at level 0 has
\* an array as its root value, whatever the chunks it was written in and
\* whether or not peek() was called before the first write
RootSequence ==
    (phase = "ended" /\ StartsWithDash(Written))
        => result.value.t = "arr" /\ ValueOf(plain).t = "arr"

\* ------------------------------------------------------------------------
\* Reference resolution: parse(doc) followed by buildIR(ast), for documents
\* put together from blocks that register ids and refer to them
\* ------------------------------------------------------------------------

\* components:\n  - id: btn\n    type: Button\n
BlockComponents ==
    <<"c", "o", "m", "p", "o", "n", "e", "n", "t", "s", ":", NL, SP, SP, "-", SP, "i", "d",
      ":", SP, "b", "t", "n", NL, SP, SP, SP, SP, "t", "y", "p", "e", ":", SP, "B", "u",
      "t", "t", "o", "n", NL>>

\* form:\n  child:\n    ref: btn\n
BlockForm ==
    <<"f", "o", "r", "m", ":", NL, SP, SP, "c", "h", "i", "l", "d", ":", NL, SP, SP, SP,
      SP, "r", "e", "f", ":", SP, "b", "t", "n", NL>>

\* node:\n  id: self\n  child:\n    ref: self\n
BlockSelf ==
    <<"n", "o", "d", "e", ":", NL, SP, SP, "i", "d", ":", SP, "s", "e", "l", "f", NL, SP,
      SP, "c", "h", "i", "l", "d", ":", NL, SP, SP, SP, SP, "r", "e", "f", ":", SP, "s",
      "e", "l", "f", NL>>

\* panel:\n  child:\n    ref: none\n
BlockMissing ==
    <<"p", "a", "n", "e", "l", ":", NL, SP, SP, "c", "h", "i", "l", "d", ":", NL, SP, SP,
      SP, SP, "r", "e", "f", ":", SP, "n", "o", "n", "e", NL>>

\* a:\n  id: p\n  x:\n    ref: q\n
BlockP ==
    <<"a", ":", NL, SP, SP, "i", "d", ":", SP, "p", NL, SP, SP, "x", ":", NL, SP, SP, SP,
      SP, "r", "e", "f", ":", SP, "q", NL>>

\* b:\n  id: q\n  y:\n    ref: p\n
BlockQ ==
    <<"b", ":", NL, SP, SP, "i", "d", ":", SP, "q", NL, SP, SP, "y", ":", NL, SP, SP, SP,
      SP, "r", "e", "f", ":", SP, "p", NL>>

\* items:\n  - btn\n  - ref: p\n
BlockList ==
    <<"i", "t", "e", "m", "s", ":", NL, SP, SP, "-", SP, "b", "t", "n", NL, SP, SP, "-",
      SP, "r", "e", "f", ":", SP, "p", NL>>

RefBlocks ==
    {BlockComponents, BlockForm, BlockSelf, BlockMissing, BlockP, BlockQ, BlockList}

MaxBlocks == 2

RECURSIVE BlockDocs(_)
\* every document of n blocks drawn from RefBlocks
BlockDocs(n) ==
    IF n = 0 THEN {<<>>}
    ELSE {d \o b : d \in BlockDocs(n - 1), b \in RefBlocks}

\* scenario S4 of the specification
ScenarioS4 == BlockSelf

\* a self-reference together with two objects that refer to each other
ScenarioCycles == ScenarioS4 \o BlockP \o BlockQ

RefDocs == UNION {BlockDocs(n) : n \in 1..MaxBlocks} \cup {ScenarioCycles}

\* scenario S3 of the specification
ScenarioS3 == BlockComponents \o BlockForm

RECURSIVE Sentinels(_)
\* the targets of the {$ref: id} objects anywhere in value
Sentinels(value) ==
    IF value.t = "arr"
    THEN UNION {Sentinels(value.items[i]) : i \in 1..Len(value.items)}
    ELSE IF value.t = "obj"
    THEN (IF isRef(value) THEN {ObjGet(value.kv, KeyDollarRef).s} ELSE {})
         \cup UNION {Sentinels(value.kv[i].v) : i \in 1..Len(value.kv)}
    ELSE {}

\* documents in which a mapping receives a key more than once
\* a: 1\na: 2\n
DupScalars ==
    <<"a", ":", SP, "1", NL, "a", ":", SP, "2", NL>>

\* a:\n  b: 1\na: 2\n
DupNestedFirst ==
    <<"a", ":", NL, SP, SP, "b", ":", SP, "1", NL, "a", ":", SP, "2", NL>>

\* a: 1\na:\n  b: 2\n
DupNestedLast ==
    <<"a", ":", SP, "1", NL, "a", ":", NL, SP, SP, "b", ":", SP, "2", NL>>

\* a:\na: 2\n
DupEmptyFirst ==
    <<"a", ":", NL, "a", ":", SP, "2", NL>>

\* k:\n  a: 1\n  a: x\n
DupInner ==
    <<"k", ":", NL, SP, SP, "a", ":", SP, "1", NL, SP, SP, "a", ":", SP, "x", NL>>

\* - a: 1\n  a: 2\n
DupInItem ==
    <<"-", SP, "a", ":", SP, "1", NL, SP, SP, "a", ":", SP, "2", NL>>

\* a: 1\nb: 2\na: 3\nb: 4\n
DupThrice ==
    <<"a", ":", SP, "1", NL, "b", ":", SP, "2", NL, "a", ":", SP, "3", NL, "b", ":", SP,
      "4", NL>>

DupDocs ==
    {DupScalars, DupNestedFirst, DupNestedLast, DupEmptyFirst, DupInner, DupInItem,
     DupThrice, SubSeq(DupScalars, 1, Len(DupScalars) - 1)}

\* buildIR(ast): new IRBuilder().build(ast)
buildIR(nodes, ast) == Call("build", <<nodes, ast>>)

\* a reference to an id registered after it, and a reference to no id
ScenarioForwardMissing == BlockForm \o BlockMissing \o BlockComponents

BuildInit ==
    /\ doc \in RefDocs \cup DupDocs \cup {ScenarioForwardMissing}
    /\ sent = 0
    /\ sp = NewStream(FALSE)
    /\ plain = NewStream(FALSE)
    /\ phase = "open"
    /\ result = NoResult

\* parse(doc), then buildIR of the result's ast; result.ir is the IRResult
Build ==
    /\ phase = "open"
    /\ LET S == Call("ParserEnd", <<Call("ParserWrite", <<plain, doc>>)>>)
           ir == buildIR(S.nodes, S.stack[1].node)
       IN /\ plain' = S
          /\ result' = [op |-> "build", value |-> ir.value, again |-> FALSE, ir |-> ir]
    /\ sent' = Len(doc)
    /\ phase' = "ended"
    /\ UNCHANGED <<doc, sp>>

\* the documents an IRBuilder is used on after its first build
ReuseDocs == RefBlocks \cup {ScenarioS3}

\* The IRBuilder that built doc builds the tree of another document, the way
\* the irBuilder of createStreamingParser serves every peek(), end() and
\* intent payload, before and after a reset(); sp is the parser of that
\* document.
Reuse ==
    /\ result.op = "build"
    /\ \E second \in ReuseDocs :
          LET r == Call("buildAgain", <<usedBuilder(result.ir), NewStream(FALSE), second>>)
          IN /\ sp' = r.s
             /\ result' = [op |-> "reuse", value |-> r.ir.value, again |-> FALSE,
                           ir |-> r.ir, second |-> second]
    /\ UNCHANGED <<doc, sent, plain, phase>>

BuildNext == Build \/ Reuse

BuildSpec == BuildInit /\ [][BuildNext]_vars

\* C18: each {$ref: id} sentinel left in the value of a build names a
\* target listed in unresolvedRefs
SentinelsUnresolved ==
    result.op = "build" =>
        \A id \in Sentinels(result.ir.value) : InSeq(id, result.ir.unresolvedRefs)

\* ------------------------------------------------------------------------
\* IRBuilder.resolveRefs step by step.  R.B is [root, reg, unresolvedRefs,
\* visited] as in resolveRefs above; R.calls is the stack of the running
\* calls of resolveRefs, each with the container it walks (path), the keys
\* or indices its loop goes through (steps) and the loop's position (i).
\* ------------------------------------------------------------------------

\* Object.keys(value), or the indices of an array
ChildSteps(value) ==
    IF value.t = "arr"
    THEN [i \in 1..Len(value.items) |-> [i |-> i]]
    ELSE [i \in 1..Len(value.kv) |-> [k |-> value.kv[i].k]]

\* a call of resolveRefs that stays on the stack when its loop is over
staysOnStack(calls) == calls

\* the innermost call of resolveRefs returns
returnsFromCall(calls) == SubSeq(calls, 1, Len(calls) - 1)

\* resolveRefs(value, visited) is called on the value at path: it returns at
\* once for a primitive or a visited container, else it marks the container
\* and starts its loop
enterResolveRefs(R, path) ==
    LET value == ValueAt(R.B.root, path) IN
    IF ~IsContainer(value) \/ path \in R.B.visited THEN R
    ELSE [R EXCEPT !.B.visited = @ \cup {path},
                   !.calls = Append(@, [path |-> path, steps |-> ChildSteps(value), i |-> 1])]

\* one iteration of the loop of the innermost call, or its return
resolveStep(R) ==
    LET top == Len(R.calls)
        call == R.calls[top]
    IN IF call.i > Len(call.steps)
       THEN [R EXCEPT !.calls = returnsFromCall(@)]
       ELSE LET childPath == Append(call.path, call.steps[call.i])
                inArray == "i" \in DOMAIN call.steps[call.i]
                child == ValueAt(R.B.root, childPath)
                R1 == [R EXCEPT !.calls[top].i = call.i + 1]
                replaced(target) ==
                    [R1 EXCEPT !.B.root = SetAt(@, childPath, RegGet(R.B.reg, R.B.root, target)),
                               !.B.reg = Detach(@, childPath, <<>>, R.B.root)]
            IN IF inArray /\ child.t = "str" /\ RegHas(R.B.reg, child.s)
               THEN replaced(child.s)
               ELSE IF isRef(child)
                    THEN LET target == ObjGet(child.kv, KeyDollarRef).s IN
                         IF RegHas(R.B.reg, target)
                         THEN replaced(target)
                         ELSE [R1 EXCEPT !.B.unresolvedRefs = Append(@, target)]
                    ELSE enterResolveRefs(R1, childPath)

\* build(ast) when transformNode has returned and resolveRefs(value) is called
Resolving(nodes, ast) ==
    LET t == Call("transformNode", <<nodes, ast, <<>>, <<>>>>)
    IN enterResolveRefs(
           [op |-> "resolving", value |-> EmptyObj, again |-> FALSE,
            B |-> [root |-> t.v, reg |-> t.reg, unresolvedRefs |-> <<>>, visited |-> {}],
            calls |-> <<>>],
           <<>>)

\* the IRResult that build returns once resolveRefs has returned
Resolved(R) ==
    [ value |-> Call("liftRefOnlyObjects", <<R.B.root>>),
      registry |-> [i \in 1..Len(R.B.reg) |->
                       [id |-> R.B.reg[i].id,
                        value |-> RegGet(R.B.reg, R.B.root, R.B.reg[i].id)]],
      unresolvedRefs |-> R.B.unresolvedRefs,
      errors |-> <<>> ]

ResolveInit ==
    /\ doc \in RefDocs
    /\ sent = Len(doc)
    /\ sp = NewStream(FALSE)
    /\ plain = Call("ParserEnd", <<Call("ParserWrite", <<NewStream(FALSE), doc>>)>>)
    /\ phase = "open"
    /\ result = Resolving(plain.nodes, plain.stack[1].node)

\* the innermost call of resolveRefs runs one iteration of its loop or returns
ResolveStep ==
    /\ result.op = "resolving"
    /\ result.calls /= <<>>
    /\ result' = resolveStep(result)
    /\ UNCHANGED <<doc, sent, sp, plain, phase>>

\* resolveRefs has returned: build lifts the ref-only objects and returns
ResolveReturn ==
    /\ result.op = "resolving"
    /\ result.calls = <<>>
    /\ LET ir == Resolved(result)
       IN result' = [op |-> "build", value |-> ir.value, again |-> FALSE, ir |-> ir]
    /\ phase' = "ended"
    /\ UNCHANGED <<doc, sent, sp, plain>>

ResolveNext == ResolveStep \/ ResolveReturn

ResolveSpec == ResolveInit /\ [][ResolveNext]_vars

\* build is a synchronous call: a call that can take a step takes it
ResolveLive == ResolveSpec /\ WF_vars(ResolveNext)

\* C19: IRBuilder.build terminates for every document, among them those in
\* which an object refers to its own id or two objects refer to each other's:
\* the calls of resolveRefs all return and build returns its result
BuildTerminates == <>(result.op = "build")

\* build has returned, with the result of build above, for a document
\* holding a self-reference and two objects that refer to each other
BuildTerminatesWitness ==
    /\ result.op = "build"
    /\ doc = ScenarioCycles
    /\ result.ir = buildIR(plain.nodes, plain.stack[1].node)
    /\ \A id \in {<<"s", "e", "l", "f">>, <<"p">>, <<"q">>} : RegHas(result.ir.registry, id)

\* the step-by-step resolveRefs returns what resolveRefs above returns
ResolveAgrees ==
    result.op = "build" => result.ir = buildIR(plain.nodes, plain.stack[1].node)

\* ---------------------------------------------------------------------
\* Scenario S3

\* form.child in the value of the build of scenario S3
FormChild ==
    ObjGet(ObjGet(result.ir.value.kv, <<"f", "o", "r", "m">>).kv,
           <<"c", "h", "i", "l", "d">>)

ButtonId == IRStr(<<"b", "t", "n">>)
ButtonType == IRStr(<<"B", "u", "t", "t", "o", "n">>)

\* C20 as stated: for scenario S3 form.child is {type: "Button"}, the
\* registry contains btn and unresolvedRefs is empty
ResolvedReferenceS3 ==
    (result.op = "build" /\ doc = ScenarioS3) =>
        /\ FormChild = IRObj(<<[k |-> KeyType, v |-> ButtonType]>>)
        /\ RegHas(result.ir.registry, ButtonId.s)
        /\ result.ir.unresolvedRefs = <<>>

\* C20: for scenario S3 form.child is the copy of the registered object,
\* {id: "btn", type: "Button"}, the registry contains btn and unresolvedRefs
\* is empty
ResolvedReferenceWithId ==
    (result.op = "build" /\ doc = ScenarioS3) =>
        /\ FormChild = IRObj(<<[k |-> KeyId, v |-> ButtonId],
                               [k |-> KeyType, v |-> ButtonType]>>)
        /\ RegHas(result.ir.registry, ButtonId.s)
        /\ result.ir.unresolvedRefs = <<>>

\* scenario S3 has been built and its form has a child
ResolvedReferenceWitness ==
    /\ result.op = "build" /\ doc = ScenarioS3
    /\ FormChild.t = "obj" /\ ObjHas(FormChild.kv, KeyType)

\* ---------------------------------------------------------------------
\* The registry of a build

\* the ids the tree of parser S can register: the scalars under a key id
IdsOfTree(S) ==
    {S.nodes[S.nodes[n].entries[e].value].value :
        <<n, e>> \in {<<n, e>> \in (1..Len(S.nodes)) \X (1..Len(S.nodes)) :
                        /\ S.nodes[n].kind = "mapping"
                        /\ e <= Len(S.nodes[n].entries)
                        /\ S.nodes[n].entries[e].key = KeyId
                        /\ S.nodes[S.nodes[n].entries[e].value].kind = "scalar"}}

\* the targets of the references of the tree of parser S
TargetsOfTree(S) ==
    {S.nodes[n].target : n \in {n \in 1..Len(S.nodes) : S.nodes[n].kind = "ref"}}

\* C21: the registry and unresolvedRefs a build returns hold only ids and
\* targets of the tree given to that build, and the build returns what a new
\* IRBuilder returns for that tree, also when the instance has built another
\* tree before
RegistryPerBuild ==
    result.op = "reuse" =>
        /\ result.ir = buildIR(sp.nodes, sp.stack[1].node)
        /\ \A i \in 1..Len(result.ir.registry) : result.ir.registry[i].id \in IdsOfTree(sp)
        /\ \A i \in 1..Len(result.ir.unresolvedRefs) :
              result.ir.unresolvedRefs[i] \in TargetsOfTree(sp)

\* an IRBuilder that has registered btn and left a reference to a missing id
\* unresolved builds the self-referential document, and returns self alone
RegistryPerBuildWitness ==
    /\ result.op = "reuse"
    /\ doc = BlockComponents \o BlockMissing
    /\ result.second = BlockSelf
    /\ Len(result.ir.registry) = 1 /\ RegHas(result.ir.registry, <<"s", "e", "l", "f">>)

\* ---------------------------------------------------------------------
\* Lifting of ref-only objects, applied to IR values

\* nesting depth of the IR values lifted
MaxDepth == 2

IRAtoms == {IRNull, IRNum(<<"1">>), IRStr(<<"x">>)}

\* the IR values of nesting depth up to d: objects with the key ref alone,
\* with another key alone, with both, empty objects and arrays
RECURSIVE IRValues(_)
IRValues(d) ==
    IF d = 0 THEN IRAtoms
    ELSE LET V == IRValues(d - 1)
         IN V \cup {EmptyObj, IRArr(<<>>)}
              \cup {IRObj(<<[k |-> KeyRef, v |-> v]>>) : v \in V}
              \cup {IRObj(<<[k |-> KeyType, v |-> v]>>) : v \in V}
              \cup {IRObj(<<[k |-> KeyRef, v |-> v], [k |-> KeyType, v |-> a]>>) :
                        <<v, a>> \in V \X IRAtoms}
              \cup {IRArr(<<v>>) : v \in V}

LiftInit ==
    /\ doc = <<>> /\ sent = 0 /\ phase = "open"
    /\ sp = NewStream(FALSE) /\ plain = NewStream(FALSE)
    /\ \E v \in IRValues(MaxDepth) : result = [op |-> "value", value |-> v, again |-> FALSE]

\* liftRefOnlyObjects applied to the value at hand: first to the IR value,
\* then to what the first application returned
Lift ==
    /\ result.op = "value" \/ (result.op = "lift" /\ ~result.again)
    /\ result' = [op |-> "lift",
                  value |-> Call("liftRefOnlyObjects", <<result.value>>),
                  again |-> result.op = "lift",
                  before |-> result.value,
                  of |-> IF result.op = "lift" THEN result.of ELSE result.value]
    /\ UNCHANGED <<doc, sent, sp, plain, phase>>

LiftNext == Lift

LiftSpec == LiftInit /\ [][LiftNext]_vars

\* C22: lifting the result of a lifting returns a value equal to that result
LiftIdempotent ==
    (result.op = "lift" /\ result.again) => result.value = result.before

\* lifted twice: a ref-only object whose ref holds a ref-only object, which
\* the first lifting replaced by the innermost value
LiftIdempotentWitness ==
    /\ result.op = "lift" /\ result.again
    /\ result.of = IRObj(<<[k |-> KeyRef,
                            v |-> IRObj(<<[k |-> KeyRef, v |-> IRStr(<<"x">>)]>>)]>>)
    /\ result.value = IRStr(<<"x">>)

\* ---------------------------------------------------------------------
\* Duplicate keys

KeyTokens(S) == SelectSeq(S.tokens, LAMBDA t : t.type = "KEY")

\* the entries of the mapping nodes of S, as <<node, index>>
EntriesOf(S) ==
    {ne \in (1..Len(S.nodes)) \X (1..Len(S.tokens)) :
        S.nodes[ne[1]].kind = "mapping" /\ ne[2] <= Len(S.nodes[ne[1]].entries)}

\* the index of the last entry of entries with the key of entry e
LastWith(entries, e) ==
    CHOOSE i \in 1..Len(entries) :
        /\ entries[i].key = entries[e].key
        /\ \A j \in (i + 1)..Len(entries) : entries[j].key /= entries[e].key

\* transformNode of a new IRBuilder applied to node
TransformOf(S, node) == Call("transformNode", <<S.nodes, node, <<>>, <<>>>>).v

\* C23: when a mapping receives a key more than once, every KEY token has its
\* entry in the tree, the entries of a mapping stand in source order, the
\* object built from the mapping holds each key once with the value of the
\* last entry of that key, and neither the parser nor the builder records
\* an error
DuplicateKeys ==
    (result.op = "build" /\ doc \in DupDocs) =>
        /\ Cardinality(EntriesOf(plain)) = Len(KeyTokens(plain))
        /\ \A i \in 1..Len(KeyTokens(plain)) :
              \E ne \in EntriesOf(plain) :
                  LET entry == plain.nodes[ne[1]].entries[ne[2]]
                      token == KeyTokens(plain)[i]
                  IN entry.key = token.value /\ entry.line = token.line
                       /\ entry.column = token.column
        /\ \A n \in 1..Len(plain.nodes) :
              plain.nodes[n].kind = "mapping" =>
                  LET entries == plain.nodes[n].entries
                      object == TransformOf(plain, n)
                  IN /\ \A i, j \in 1..Len(entries) :
                            i < j => entries[i].line < entries[j].line
                     /\ object.t = "obj"
                     /\ Len(object.kv) = Cardinality({entries[e].key : e \in 1..Len(entries)})
                     /\ \A e \in 1..Len(entries) :
                            /\ ObjHas(object.kv, entries[e].key)
                            /\ ObjGet(object.kv, entries[e].key)
                                  = TransformOf(plain, entries[LastWith(entries, e)].value)
        /\ result.value = TransformOf(plain, plain.stack[1].node)
        /\ plain.errors = <<>> /\ result.ir.errors = <<>>

\* a: 1, b: 2, a: 3, b: 4 has been built: four entries in the tree, and the
\* object {a: 3, b: 4}
DuplicateKeysWitness ==
    /\ result.op = "build" /\ doc = DupThrice
    /\ Len(RootEntries(plain)) = 4
    /\ result.value = IRObj(<<[k |-> <<"a">>, v |-> IRNum(<<"3">>)],
                              [k |-> <<"b">>, v |-> IRNum(<<"4">>)]>>)

\* ---------------------------------------------------------------------
\* Scalar coercion, applied to scalar texts

\* length of the generated scalar texts
MaxText == 3

TextChars == {"1", "0", ".", "e", "-", "~", SP}

\* every text of n characters of TextChars
RECURSIVE TextsOf(_)
TextsOf(n) ==
    IF n = 0 THEN {<<>>} ELSE {<<c>> \o t : c \in TextChars, t \in TextsOf(n - 1)}

\* words, numbers and inline JSON as they stand in documents
LiteralTexts ==
    {<<"n", "u", "l", "l">>,
     <<"N", "u", "l", "l">>,
     <<"N", "U", "L", "L">>,
     <<"n", "U", "L", "L">>,
     <<SP, "n", "u", "l", "l", SP>>,
     <<"t", "r", "u", "e">>,
     <<"T", "r", "u", "e">>,
     <<"T", "R", "U", "E">>,
     <<"f", "a", "l", "s", "e">>,
     <<"F", "a", "l", "s", "e">>,
     <<"F", "A", "L", "S", "E">>,
     <<"t", "r", "u", "E">>,
     <<"4", "2">>,
     <<"-", "7">>,
     <<"0", "0", "7">>,
     <<"4", "2", SP>>,
     <<"9", "0", "0", "7", "1", "9", "9", "2", "5", "4", "7", "4", "0", "9", "9", "1">>,
     <<"9", "0", "0", "7", "1", "9", "9", "2", "5", "4", "7", "4", "0", "9", "9", "2">>,
     <<"-", "9", "0", "0", "7", "1", "9", "9", "2", "5", "4", "7", "4", "0", "9", "9", "2">>,
     <<"1", "9", ".", "9", "9">>,
     <<"-", "0", ".", "5">>,
     <<"1", ".", "0">>,
     <<"3", ".">>,
     <<".", "5">>,
     <<"+", "1">>,
     <<"1", "e", "3">>,
     <<"1", ".", "5", "E", "-", "3">>,
     <<"1", "e", "9", "9", "9">>,
     <<"-", "2", ".", "e", "4", "0", "0">>,
     <<"1", "e">>,
     <<"0", "x", "1", "0">>,
     <<"[", "1", ",", SP, "2", "]">>,
     <<"[", "\"", "a", "\"", "]">>,
     <<"[", "]">>,
     <<"[", "1", ",", SP, "2">>,
     <<"[", "1", ",", "]">>,
     <<"[", "n", "u", "l", "]">>,
     <<"{", "\"", "a", "\"", ":", SP, "1", "}">>,
     <<"{", "}">>,
     <<"{", "a", ":", SP, "1", "}">>,
     <<"{", "\"", "a", "\"", ":", SP, "[", "1", "]", "}">>,
     <<"{", "\"", "a", "\"", ":", SP, "1", "]">>,
     <<"h", "e", "l", "l", "o">>,
     <<SP, "x", SP>>,
     <<"t", "o", "o", "l", "_", "c", "a", "l", "l">>}

ScalarTexts == UNION {TextsOf(n) : n \in 0..MaxText} \cup LiteralTexts

CoerceInit ==
    /\ doc \in ScalarTexts /\ sent = 0 /\ phase = "open"
    /\ sp = NewStream(FALSE) /\ plain = NewStream(FALSE)
    /\ \E quoted \in BOOLEAN : result = [op |-> "scalar", quoted |-> quoted]

\* transformScalar of a scalar node whose value is doc
Coerce ==
    /\ result.op = "scalar"
    /\ result' = [op |-> "coerce", quoted |-> result.quoted,
                  value |-> Call("coerceValue", <<doc, result.quoted>>)]
    /\ UNCHANGED <<doc, sent, sp, plain, phase>>

CoerceNext == Coerce

CoerceSpec == CoerceInit /\ [][CoerceNext]_vars

\* the text parses as JSON and the value parsed is of kind t
ParsesAs(trimmed, open, close, t) ==
    /\ trimmed /= <<>> /\ Head(trimmed) = open /\ trimmed[Len(trimmed)] = close
    /\ Call("JsonParse", <<trimmed>>).ok
    /\ Call("JsonParse", <<trimmed>>).v.t = t

\* the first rule of the stated list that the trimmed text matches; finite
\* tells whether rule 5 asks for a finite number
StatedRule(trimmed, finite) ==
    IF trimmed \in NullWords THEN 1
    ELSE IF trimmed \in TrueWords \cup FalseWords THEN 2
    ELSE IF IsIntegerLiteral(trimmed) /\ Call("IsSafeInteger", <<trimmed>>) THEN 3
    ELSE IF IsFloatLiteral(trimmed) THEN 4
    ELSE IF IsScientific(trimmed) /\ (finite => Call("SciIsFinite", <<trimmed>>)) THEN 5
    ELSE IF ParsesAs(trimmed, "[", "]", "arr") THEN 6
    ELSE IF ParsesAs(trimmed, "{", "}", "obj") THEN 7
    ELSE 8

\* the value is of the kind the rule names; rule 8 gives the text as it was
OfRule(value, rule, text) ==
    CASE rule = 1 -> value = IRNull
      [] rule = 2 -> value = IRBool(Trim(text) \in TrueWords)
      [] rule \in {3, 4, 5} -> value.t = "num"
      [] rule = 6 -> value.t = "arr"
      [] rule = 7 -> value.t = "obj"
      [] OTHER -> value = IRStr(text)

BlockUnder(S, e, node) ==
    \/ e.value = node
    \/ S.nodes[e.value].kind = "sequence" /\ InSeq(node, S.nodes[e.value].items)

\* C25: the handler registered with onIntent(K, handler) has been called for
\* every block under the root key K for which intent_ready was emitted,
\* whatever the type of the block, and for no block under another key
OnIntentByKey ==
    /\ \A j \in 1..Len(plain.events) : \A i \in 1..Len(RootEntries(plain)) :
          LET ev == plain.events[j]
              e == RootEntries(plain)[i]
          IN (/\ ev.type = "intent_ready"
              /\ BlockUnder(plain, e, ev.num)
              /\ e.key \in plain.specificHandlers)
               => \E c \in 1..Len(plain.specificLog) :
                      /\ plain.specificLog[c].key = e.key
                      /\ plain.specificLog[c].node = ev.num
    /\ \A c \in 1..Len(plain.specificLog) :
          \E i \in 1..Len(RootEntries(plain)) :
              /\ RootEntries(plain)[i].key = plain.specificLog[c].key
              /\ BlockUnder(plain, RootEntries(plain)[i], plain.specificLog[c].node)

\* ---------------------------------------------------------------------
\* Subscribing and unsubscribing.  The caller registers one handler with
\* on(event, handler) for each event of ListenKinds, streams a document, and
\* calls off(event, handler) at any point; plain is that parser, sp a parser
\* whose caller never unsubscribes.  result.off holds the events off() was
\* called with.
\* ---------------------------------------------------------------------

ListenKinds == {"value", "intent_ready", "intent_partial"}

ListenDocs == {ScenarioTwoIntents}

\* createStreamingParser(options), then on(event, handler) for each event
Listening ==
    FacadeOn(FacadeOn(FacadeOn(NewStream(FALSE), "value"), "intent_ready"),
             "intent_partial")

ListenInit ==
    /\ doc \in ListenDocs
    /\ sent = 0
    /\ sp = Listening
    /\ plain = Listening
    /\ phase = "open"
    /\ result = [op |-> "none", value |-> EmptyObj, again |-> FALSE, off |-> {}]

\* stream.write(chunk) with the next n characters of doc
ListenWrite(n) ==
    /\ phase = "open"
    /\ sent + n <= Len(doc)
    /\ LET chunk == SubSeq(doc, sent + 1, sent + n) IN
       /\ sp' = Call("ParserWrite", <<sp, chunk>>)
       /\ plain' = Call("ParserWrite", <<plain, chunk>>)
    /\ sent' = sent + n
    /\ result' = [result EXCEPT !.op = "write"]
    /\ UNCHANGED <<doc, phase>>

\* stream.end()
ListenEnd ==
    /\ phase = "open"
    /\ sp' = Call("FacadeEnd", <<sp>>).s
    /\ plain' = Call("FacadeEnd", <<plain>>).s
    /\ phase' = "ended"
    /\ result' = [result EXCEPT !.op = "end"]
    /\ UNCHANGED <<doc, sent>>

\* stream.off(event, handler)
Off ==
    /\ phase = "open"
    /\ \E event \in ListenKinds \ result.off :
          /\ plain' = FacadeOff(plain, event)
          /\ result' = [result EXCEPT !.op = "off", !.off = @ \cup {event}]
    /\ UNCHANGED <<doc, sent, sp, phase>>

ListenNext ==
    \/ \E n \in 1..MaxChunk : ListenWrite(n)
    \/ ListenEnd
    \/ Off

ListenSpec == ListenInit /\ [][ListenNext]_vars

\* the number of calls the caller's handler has had for the event
CallsOf(S, event) ==
    IF event = "intent_ready" THEN Len(S.intentLog)
    ELSE IF event = "intent_partial" THEN Len(S.partialLog)
    ELSE Len(SelectSeq(S.heard, LAMBDA e : e.type = event))

\* C26: once off(event, handler) has been called, no step adds a call of the
\* handler for that event, for each event on() accepts
Unsubscribed ==
    [][\A event \in ListenKinds :
          event \in result.off => CallsOf(plain', event) = CallsOf(plain, event)]_vars

\* ---------------------------------------------------------------------
\* The rewind of an incomplete bareword

\* the call of next() that returned null and ended the loop of a write:
\* the tokenizer before and after it
RECURSIVE LastNext(_)
LastNext(T) ==
    LET r == Call("next", <<T>>)
    IN IF r.tok = NoToken THEN [before |-> T, after |-> r.tk] ELSE LastNext(r.tk)

\* where the token that next() meets begins: past the indentation of a line
\* not yet begun, and past the spaces before the token
TokenStart(T) == skipSpaces(IF T.state.atLineStart THEN consumeIndent(T).tk ELSE T)

\* the character at the position of T begins a bareword key or scalar
BarewordStart(T) ==
    /\ peekChar(T, 0) \notin {NoChar, NL, CR, "#", "\"", "'", ":", "|", "{", "["}
    /\ ~(peekChar(T, 0) = "-" /\ peekChar(T, 1) = SP)

\* the tokenizer stands at the first character of a bareword it has read to
\* the end of the input and given back
Rewound(T) ==
    /\ T.state.pos < Len(T.input)
    /\ T.state.pending = <<>>
    /\ ~T.state.atLineStart
    /\ BarewordStart(T)

\* the character at index i of input ends a bareword: a line end, a comment,
\* or a colon before a space, a line end or the end of the input
EndsBareword(input, i) ==
    \/ input[i] \in {NL, CR, "#"}
    \/ input[i] = ":" /\ (i = Len(input) \/ input[i + 1] \in {SP, NL, CR})

\* the text of the bareword of input that begins after position pos
CompleteText(input, pos) ==
    LET ends == {i \in (pos + 1)..Len(input) : EndsBareword(input, i)}
        last == IF ends = {} THEN Len(input)
                ELSE (CHOOSE i \in ends : \A j \in ends : i <= j) - 1
    IN Trim(SubSeq(input, pos + 1, last))

\* C27: when the last next() of a write ends inside a bareword key or
\* scalar, it returns null and leaves the tokenizer at the first character
\* of that token, line and column with it, the indent stack and the pending
\* queue as they were; the write or end() that takes the tokenizer on from
\* there emits first the token at that place, with the whole text of the
\* bareword (or the dash that the text turned out to be)
RewindRestores ==
    [][/\ result'.op = "write" =>
            LET c == LastNext(TokenizerWrite(plain.tokenizer, SubSeq(doc, sent + 1, sent')))
                s == TokenStart(c.before)
            IN (c.before.state.pending = <<>> /\ BarewordStart(s)) =>
                  /\ plain'.tokenizer = c.after
                  /\ c.after.state.pos = s.state.pos
                  /\ c.after.state.column = s.state.column
                  /\ c.after.state.line = c.before.state.line
                  /\ c.after.state.indentStack = c.before.state.indentStack
                  /\ c.after.state.pending = c.before.state.pending
                  /\ c.after.input = c.before.input
       /\ (/\ result'.op \in {"write", "end"}
           /\ Rewound(plain.tokenizer)
           /\ plain'.tokenizer.state.pos > plain.tokenizer.state.pos) =>
            /\ Len(plain'.tokens) > Len(plain.tokens)
            /\ LET token == plain'.tokens[Len(plain.tokens) + 1]
               IN /\ token.line = plain.tokenizer.state.line
                  /\ \/ token.type = "DASH"
                     \/ /\ token.type \in {"KEY", "SCALAR"}
                        /\ token.column = plain.tokenizer.state.column
                        /\ token.value = CompleteText(plain'.tokenizer.input,
                                                         plain.tokenizer.state.pos)]_vars

\* a write has ended inside the bareword of an indented line: the tokenizer
\* stands at its first character, which is not the last of the input
RewindRestoresWitness ==
    /\ result.op = "write" /\ phase = "open"
    /\ Rewound(plain.tokenizer)
    /\ plain.tokenizer.state.pos + 1 < Len(plain.tokenizer.input)
    /\ plain.tokenizer.state.column > 1
    /\ Len(plain.tokenizer.state.indentStack) > 1

\* ---------------------------------------------------------------------
\* Indentation.  Documents of key lines, comment lines and blank lines at
\* several indentations are streamed in chunks and ended at any point.
\* ---------------------------------------------------------------------

\* number of lines of the indentation documents
MaxIndentLines == 2

\* the leading spaces of a line
IndentWidths == {0, 2, 4}

\* a key, a comment, nothing
LineBodies == {<<"k", ":">>, <<"#", SP, "c">>, <<>>}

RECURSIVE IndentLineDocs(_)
IndentLineDocs(n) ==
    IF n = 0 THEN {<<>>}
    ELSE {d \o Repeat(<<SP>>, w) \o b \o <<NL>> :
             d \in IndentLineDocs(n - 1), w \in IndentWidths, b \in LineBodies}

\* up to MaxIndentLines lines, or a key line and up to MaxIndentLines lines
\* under it
IndentDocs ==
    UNION {IndentLineDocs(n) \cup {<<"k", ":", NL>> \o d : d \in IndentLineDocs(n)} :
              n \in 1..MaxIndentLines}

IndentInit ==
    /\ doc \in IndentDocs
    /\ sent = 0
    /\ sp = NewStream(FALSE)
    /\ plain = NewStream(FALSE)
    /\ phase = "open"
    /\ result = NoResult

IndentNext ==
    \/ \E n \in 1..MaxChunk : Write(n)
    \/ WriteRest
    \/ End

IndentSpec == IndentInit /\ [][IndentNext]_vars

CountOf(tokens, type) == Len(SelectSeq(tokens, LAMBDA t : t.type = type))

\* C28: the token stream that end() has completed holds as many DEDENT as
\* INDENT tokens, none of its prefixes holds more DEDENT than INDENT tokens,
\* and it holds one EOF token, which is its last
BalancedTokens ==
    phase = "ended" =>
        /\ CountOf(plain.tokens, "DEDENT") = CountOf(plain.tokens, "INDENT")
        /\ \A n \in 1..Len(plain.tokens) :
              CountOf(SubSeq(plain.tokens, 1, n), "DEDENT")
                  <= CountOf(SubSeq(plain.tokens, 1, n), "INDENT")
        /\ CountOf(plain.tokens, "EOF") = 1
        /\ plain.tokens[Len(plain.tokens)].type = "EOF"

\* ended with two levels opened one after the other and both closed
BalancedTokensWitness ==
    /\ phase = "ended"
    /\ CountOf(plain.tokens, "INDENT") = 2
    /\ \E n \in 1..Len(plain.tokens) :
          /\ plain.tokens[n].type = "KEY" /\ plain.tokens[n].indent = 2
          /\ CountOf(SubSeq(plain.tokens, 1, n), "DEDENT") = 0
    /\ plain.tokens[Len(plain.tokens) - 1].type = "DEDENT"
    /\ plain.tokens[Len(plain.tokens) - 2].type = "DEDENT"

\* ---------------------------------------------------------------------
\* Blank lines and comment lines

\* line n of text, without its line end
RECURSIVE LineOf(_, _)
LineOf(text, n) ==
    LET ends == {i \in 1..Len(text) : text[i] = NL}
        first == IF ends = {} THEN Len(text) + 1
                 ELSE CHOOSE i \in ends : \A j \in ends : i <= j
    IN IF n <= 1 THEN SubSeq(text, 1, first - 1)
       ELSE IF ends = {} THEN <<>>
       ELSE LineOf(SubSeq(text, first + 1, Len(text)), n - 1)

\* the line holds only whitespace, or only a comment after its whitespace
BlankOrComment(line) == Trim(line) = <<>> \/ Head(Trim(line)) = "#"

\* C29: no INDENT token comes from a line of the written text that holds
\* only whitespace or only a comment, and no DEDENT token other than those
\* that close the open levels at the end; so such a line leaves the indent
\* stack as it was, also when it came in pieces or is the last line and has
\* no line end
IndentNeutral ==
    phase = "ended" =>
        \A i \in 1..Len(plain.tokens) :
            (\/ plain.tokens[i].type = "INDENT"
             \/ /\ plain.tokens[i].type = "DEDENT"
                /\ \E j \in (i + 1)..Len(plain.tokens) :
                      plain.tokens[j].type \notin {"DEDENT", "EOF"})
              => ~BlankOrComment(LineOf(Written, plain.tokens[i].line))

\* ---------------------------------------------------------------------
\* Keys inside a sequence

\* C30: a mapping frame that stands on a sequence frame holds a node that is
\* an item of that sequence, and so a node of the tree under the root
KeyInSequence ==
    \A i \in 2..Len(plain.stack) :
        (plain.stack[i].type = "mapping" /\ plain.stack[i - 1].type = "sequence") =>
            /\ InSeq(plain.stack[i].node, plain.nodes[plain.stack[i - 1].node].items)
            /\ plain.stack[i].node \in Descendants(plain.nodes, plain.stack[1].node)

\* ---------------------------------------------------------------------
\* Documents for single cases of the parser, streamed in chunks

\* ref: a\nk: ref\n
RefPlain ==
    <<"r", "e", "f", ":", SP, "a", NL, "k", ":", SP, "r", "e", "f", NL>>

\* x:\n  ref: "a b"\n
RefQuoted ==
    <<"x", ":", NL, SP, SP, "r", "e", "f", ":", SP, "\"", "a", SP, "b", "\"", NL>>

\* ref:\n  ref: 1\n
RefNested ==
    <<"r", "e", "f", ":", NL, SP, SP, "r", "e", "f", ":", SP, "1", NL>>

\* ref:\nid: ref\n
RefEmpty ==
    <<"r", "e", "f", ":", NL, "i", "d", ":", SP, "r", "e", "f", NL>>

\* ref: [a]\n
RefFlow ==
    <<"r", "e", "f", ":", SP, "[", "a", "]", NL>>

RefStreamDocs ==
    LET ended == {RefPlain, RefQuoted, RefNested, RefEmpty, RefFlow, BlockList}
    IN ended \cup {SubSeq(d, 1, Len(d) - 1) : d \in ended}

\* intent:\n  type:\n    a: 1\n  name: x\n
TypeNested ==
    <<"i", "n", "t", "e", "n", "t", ":", NL, SP, SP, "t", "y", "p", "e", ":", NL, SP, SP,
      SP, SP, "a", ":", SP, "1", NL, SP, SP, "n", "a", "m", "e", ":", SP, "x", NL>>

\* intent:\n  type:\n  name: x\n
TypeEmpty ==
    <<"i", "n", "t", "e", "n", "t", ":", NL, SP, SP, "t", "y", "p", "e", ":", NL, SP, SP,
      "n", "a", "m", "e", ":", SP, "x", NL>>

IntentTypeDocs == {TypeNested, TypeEmpty}

\* text: |\nnext: k\n
EmptyLiteralTop ==
    <<"t", "e", "x", "t", ":", SP, "|", NL, "n", "e", "x", "t", ":", SP, "k", NL>>

\* a:\n  text: |\nnext: k\n
EmptyLiteralNested ==
    <<"a", ":", NL, SP, SP, "t", "e", "x", "t", ":", SP, "|", NL, "n", "e", "x", "t", ":",
      SP, "k", NL>>

EmptyLiteralDocs == {EmptyLiteralTop, EmptyLiteralNested}

\* a:\n  t: [1,\nb: 2\n
FlowOpenNested ==
    <<"a", ":", NL, SP, SP, "t", ":", SP, "[", "1", ",", NL, "b", ":", SP, "2", NL>>

\* t: {x\n  b: 2\n
FlowOpenIndented ==
    <<"t", ":", SP, "{", "x", NL, SP, SP, "b", ":", SP, "2", NL>>

FlowOpenDocs == {FlowOpenNested, FlowOpenIndented}

CaseDocs == RefStreamDocs \cup IntentTypeDocs \cup EmptyLiteralDocs \cup FlowOpenDocs

CaseInit ==
    /\ doc \in CaseDocs
    /\ sent = 0
    /\ sp = NewStream(FALSE)
    /\ plain = NewStream(FALSE)
    /\ phase = "open"
    /\ result = NoResult

CaseNext ==
    \/ \E n \in 1..MaxChunk : Write(n)
    \/ WriteRest
    \/ Peek
    \/ End

CaseSpec == CaseInit /\ [][CaseNext]_vars

\* the entries of the mappings S has created
EntriesIn(S) ==
    UNION {{S.nodes[m].entries[i] : i \in 1..Len(S.nodes[m].entries)} :
              m \in {n \in 1..Len(S.nodes) : S.nodes[n].kind = "mapping"}}

\* the items of the sequences S has created
ItemsIn(S) ==
    UNION {{S.nodes[m].items[i] : i \in 1..Len(S.nodes[m].items)} :
              m \in {n \in 1..Len(S.nodes) : S.nodes[n].kind = "sequence"}}

\* the value token at the place of node carries text
ValueTokenAt(S, node, text) ==
    \E i \in 1..Len(S.tokens) :
        /\ S.tokens[i].type \in {"SCALAR", "QUOTED"}
        /\ S.tokens[i].line = node.line
        /\ S.tokens[i].column = node.column
        /\ S.tokens[i].value = text

RefRewritten(S) ==
    /\ \A e \in EntriesIn(S) :
          /\ e.key = KeyRef => S.nodes[e.value].kind /= "scalar"
          /\ S.nodes[e.value].kind = "ref" =>
                /\ e.key = KeyRef
                /\ ValueTokenAt(S, S.nodes[e.value], S.nodes[e.value].target)
    /\ \A i \in ItemsIn(S) : S.nodes[i].kind /= "ref"
    /\ S.stack /= <<>> => S.nodes[S.stack[1].node].kind /= "ref"

\* C31: in every tree no entry with the key ref has a scalar value, a Ref
\* node is the value of an entry whose key is ref and its target is the text
\* of the scalar written there, and no Ref node is a sequence item or the root
ReferenceRewrite == RefRewritten(sp) /\ RefRewritten(plain)

\* a quoted scalar under ref has become a Ref, and the scalar ref under
\* another key has stayed a scalar
ReferenceRewriteWitness ==
    /\ \E e \in EntriesIn(plain) :
          /\ e.key = KeyRef
          /\ plain.nodes[e.value].kind = "ref"
          /\ plain.nodes[e.value].target = <<"a", " ", "b">>
    /\ phase = "ended"

\* ---------------------------------------------------------------------
\* intent_ready and the type entry

\* the node under the first entry of node with the key type, or 0
TypeValueOf(S, node) ==
    LET at == FindFirst(S.nodes[node].entries, LAMBDA e : e.key = KeyType)
    IN IF at = 0 THEN 0 ELSE S.nodes[node].entries[at].value

HasScalarTypeEntry(S, node) ==
    /\ S.nodes[node].kind = "mapping"
    /\ TypeValueOf(S, node) /= 0
    /\ S.nodes[TypeValueOf(S, node)].kind = "scalar"

\* C32: every intent_ready event is for a mapping whose type entry holds a
\* scalar and carries that scalar as its type, and every node marked as
\* emitted is such a mapping
IntentReadyScalarType ==
    /\ \A i \in 1..Len(plain.events) :
          plain.events[i].type = "intent_ready" =>
              /\ ~plain.events[i].flag
              /\ HasScalarTypeEntry(plain, plain.events[i].num)
              /\ plain.events[i].str = plain.nodes[TypeValueOf(plain, plain.events[i].num)].value
    /\ \A node \in plain.emittedIntents : HasScalarTypeEntry(plain, node)

\* ---------------------------------------------------------------------
\* Partial payloads

\* the payloads the partial handler was handed for key, in order
PartialsFor(S, key) == SelectSeq(S.partialLog, LAMBDA p : p.type = key)

\* the node under the root key, or 0
RootEntryNode(S, key) ==
    IF S.stack = <<>> \/ S.nodes[S.stack[1].node].kind /= "mapping" THEN 0
    ELSE LET at == FindFirst(S.nodes[S.stack[1].node].entries, LAMBDA e : e.key = key)
         IN IF at = 0 THEN 0 ELSE S.nodes[S.stack[1].node].entries[at].value

\* C33: when write() has returned, the last partial payload handed over for
\* an intent key is the IR build of the subtree under that key
PartialsCurrent ==
    result.op = "write" =>
        \A k \in 1..Len(IntentKeys) :
            LET ps == PartialsFor(sp, IntentKeys[k])
                node == RootEntryNode(sp, IntentKeys[k])
            IN (ps /= <<>> /\ node /= 0) =>
                   ps[Len(ps)].payload = Call("build", <<sp.nodes, node>>).value

\* ---------------------------------------------------------------------
\* Debounced partials: sp has onIntentPartial(handler, {debounceMs}), plain
\* has onIntentPartial(handler) and is called synchronously

DebounceMs == 50

DebounceDocs == {ScenarioTwoIntents, ScenarioS1}

DebounceInit ==
    /\ doc \in DebounceDocs
    /\ sent = 0
    /\ sp = onIntentPartial(NewStream(FALSE), DebounceMs)
    /\ plain = onIntentPartial(NewStream(FALSE), 0)
    /\ phase = "open"
    /\ result = NoResult

\* the event loop runs a timer whose delay has passed, between two calls
Fire ==
    /\ \E id \in sp.timers : sp' = timerFires(sp, id)
    /\ result' = [op |-> "timer", value |-> EmptyObj, again |-> FALSE]
    /\ UNCHANGED <<doc, sent, plain, phase>>

DebounceNext ==
    \/ \E n \in 1..MaxChunk : Write(n)
    \/ WriteRest
    \/ End
    \/ Fire

DebounceSpec == DebounceInit /\ [][DebounceNext]_vars

\* one call of the partial handler for each active intent, with the build of
\* its subtree in S
EmissionPass(S) ==
    [i \in 1..Len(S.activeIntents) |->
        [type |-> S.activeIntents[i].type,
         payload |-> Call("build", <<S.nodes, S.activeIntents[i].node>>).value]]

\* C34: at most one timer is pending; write() and end() never call the
\* partial handler; a call with triggering events cancels the pending timer
\* and leaves one new timer pending, a call without them leaves the timers
\* as they are; a timer that fires runs one emission pass and leaves no
\* timer pending
DebounceCoalesces ==
    [][ /\ Cardinality(sp'.timers) <= 1
        /\ result'.op \in {"write", "end"} =>
              /\ sp'.partialLog = sp.partialLog
              /\ IF Len(plain'.partialLog) > Len(plain.partialLog)
                 THEN /\ sp'.timers = {sp'.debounceTimer}
                      /\ sp'.debounceTimer \notin sp.timers
                 ELSE sp'.timers = sp.timers
        /\ result'.op = "timer" =>
              /\ sp'.timers = {}
              /\ sp'.partialLog = sp.partialLog \o EmissionPass(sp)
      ]_vars

\* a burst of three or more triggering events has been answered by one pass
DebounceCoalescesWitness ==
    /\ result.op = "timer"
    /\ Len(plain.partialLog) >= 3
    /\ sp.partialLog /= <<>>
    /\ Len(sp.partialLog) = Len(sp.activeIntents)

\* ---------------------------------------------------------------------
\* Empty literal blocks

\* the tokens of S that follow an empty SCALAR on the line the scalar ends on
AfterEmptyLiteral(S) ==
    {i \in 2..Len(S.tokens) :
        /\ S.tokens[i - 1].type = "SCALAR"
        /\ S.tokens[i - 1].value = <<>>
        /\ S.tokens[i].line = S.tokens[i - 1].line
        /\ S.tokens[i].type \in {"KEY", "SCALAR", "QUOTED", "DASH"}}

\* C35: the line after an empty literal block is tokenized as a new line at
\* its own indentation: a token at the first column of that line is at
\* indent level 0, so that a key there is an entry of the root
EmptyLiteralBlock ==
    /\ \A i \in AfterEmptyLiteral(plain) :
          plain.tokens[i].column = 1 => plain.tokens[i].indent = 0
    /\ (phase = "ended" /\ sent = Len(doc) /\ doc \in EmptyLiteralDocs) =>
          \E i \in 1..Len(result.value.kv) : result.value.kv[i].k = <<"n", "e", "x", "t">>

\* ---------------------------------------------------------------------
\* Flow values that are not closed on their line

\* token is an inline flow value without its closing bracket
IsOpenFlow(token) ==
    /\ token.type = "SCALAR"
    /\ token.value /= <<>>
    /\ \/ token.value[1] = "{" /\ token.value[Len(token.value)] /= "}"
       \/ token.value[1] = "[" /\ token.value[Len(token.value)] /= "]"

\* C36: the token after a flow value that its line left open is the NEWLINE
\* of that line, and the token after it is on the next line, at the indent
\* level its leading spaces give it
FlowLineStart ==
    \A i \in 2..Len(plain.tokens) :
        IsOpenFlow(plain.tokens[i - 1]) =>
            /\ plain.tokens[i].type \in {"NEWLINE", "EOF"}
            /\ i < Len(plain.tokens) =>
                   /\ plain.tokens[i + 1].line = plain.tokens[i - 1].line + 1
                   /\ plain.tokens[i + 1].column = 1 => plain.tokens[i + 1].indent = 0

\* ---------------------------------------------------------------------
\* Unresolved references

\* the ids in the registry of the build
RegisteredIds == {result.ir.registry[i].id : i \in 1..Len(result.ir.registry)}

\* the targets of the references of the tree, as transformNode hands them
\* to resolveRefs
ReferenceTargets == Sentinels(TransformOf(plain, plain.stack[1].node))

\* C37: the target of every reference to an id that is not registered is in
\* unresolvedRefs and its sentinel is in the value, and unresolvedRefs holds
\* nothing else: no registered id, wherever the id is defined
UnresolvedRecorded ==
    result.op = "build" =>
        /\ \A target \in ReferenceTargets \ RegisteredIds :
              /\ InSeq(target, result.ir.unresolvedRefs)
              /\ target \in Sentinels(result.ir.value)
        /\ \A i \in 1..Len(result.ir.unresolvedRefs) :
              /\ result.ir.unresolvedRefs[i] \notin RegisteredIds
              /\ result.ir.unresolvedRefs[i] \in ReferenceTargets

\* the reference to btn, registered after it, is resolved and the reference
\* to none is listed and left as a sentinel
UnresolvedRecordedWitness ==
    /\ result.op = "build"
    /\ doc = ScenarioForwardMissing
    /\ result.ir.unresolvedRefs = << <<"n", "o", "n", "e">> >>
    /\ Sentinels(result.ir.value) = { <<"n", "o", "n", "e">> }
    /\ <<"b", "t", "n">> \in ReferenceTargets \cap RegisteredIds

\* ---------------------------------------------------------------------
\* Growth of the tree

\* the node n of S is in T what it is in S, with the entries or items it has
\* in S in the same places
NodeKept(S, T, n) ==
    /\ n <= Len(T.nodes)
    /\ T.nodes[n].kind = S.nodes[n].kind
    /\ T.nodes[n].line = S.nodes[n].line
    /\ T.nodes[n].column = S.nodes[n].column
    /\ CASE S.nodes[n].kind = "mapping" -> IsPrefix(S.nodes[n].entries, T.nodes[n].entries)
         [] S.nodes[n].kind = "sequence" -> IsPrefix(S.nodes[n].items, T.nodes[n].items)
         [] OTHER -> T.nodes[n] = S.nodes[n]

\* the tree of T holds the tree of S: the same root, and every node kept
TreeKept(S, T) ==
    /\ \A n \in 1..Len(S.nodes) : NodeKept(S, T, n)
    /\ S.stack /= <<>> => /\ T.stack /= <<>>
                          /\ T.stack[1].node = S.stack[1].node

\* C38: every step other than reset() keeps every node of the tree with its
\* kind, line and column, and every entry and item in its place with its key
\* and value
TreeOnlyGrows ==
    [][result'.op /= "reset" => TreeKept(sp, sp') /\ TreeKept(plain, plain')]_vars

\* a tree built over several lines has been ended
TreeOnlyGrowsWitness ==
    /\ phase = "ended"
    /\ doc = ScenarioToolList
    /\ sent = Len(doc)
    /\ Len(plain.nodes[plain.stack[1].node].entries) = 1
    /\ Len(plain.nodes) >= 6

\* ---------------------------------------------------------------------
\* The drain loops of write, peek and end,
\*     while ((token = this.tokenizer.next()) !== null) tokens.push(token)
\* one turn of the loop per step.  sp is the tokenizer, result.value the
\* loop's variable token (NoToken for null), plain the tokens pushed so far
\* and phase the loop that is running: "write" for the loop of write() and
\* peek(), "end" for the first loop of end(), "finalize" for the loop of
\* finalize().

DrainDocs == Docs \cup CaseDocs

Loops == {"write", "end", "finalize"}

DrainInit ==
    /\ doc \in DrainDocs
    /\ sent = 0
    /\ sp = NewTokenizer(DefaultOptions)
    /\ plain = <<>>
    /\ phase = "idle"
    /\ result = NoResult

\* token = this.tokenizer.next(), entering or staying in loop ph
CallNext(T, ph, op) ==
    LET r == Call("next", <<T>>) IN
    /\ sp' = r.tk
    /\ result' = [op |-> op, value |-> r.tok, again |-> FALSE]
    /\ phase' = ph

\* parser.write(chunk): tokenizer.write(chunk), then the loop is entered
DrainWrite(n) ==
    /\ phase = "idle"
    /\ sent + n <= Len(doc)
    /\ CallNext(TokenizerWrite(sp, SubSeq(doc, sent + 1, sent + n)), "write", "write")
    /\ sent' = sent + n
    /\ UNCHANGED <<doc, plain>>

DrainWriteRest == sent < Len(doc) /\ DrainWrite(Len(doc) - sent)

\* parser.peek(): the loop is entered on the buffer as it is
DrainPeek ==
    /\ phase = "idle"
    /\ result.op /= "peek"
    /\ CallNext(sp, "write", "peek")
    /\ UNCHANGED <<doc, sent, plain>>

\* parser.end(): its first loop is entered
DrainEnd ==
    /\ phase = "idle"
    /\ CallNext(sp, "end", "end")
    /\ UNCHANGED <<doc, sent, plain>>

\* what a turn of the loop does to the token list and to the loop: a token
\* is pushed and the loop goes on; on null the loop is left, and the loop of
\* finalize() is followed by the DEDENT tokens of the open levels and by EOF
LoopTurn ==
    /\ phase \in Loops
    /\ plain' =
         IF result.value /= NoToken THEN Append(plain, result.value)
         ELSE IF phase = "finalize"
         THEN LET c == closeIndents([sp EXCEPT !.finishing = FALSE], <<>>)
              IN plain \o Append(c.tokens, createToken(c.tk, "EOF", <<>>))
         ELSE plain
    /\ phase' =
         IF result.value /= NoToken THEN phase
         ELSE CASE phase = "write" -> "idle"
                [] phase = "end" -> "finalize"
                [] phase = "finalize" -> "ended"

\* the token is pushed and next() is called again
PushToken ==
    /\ LoopTurn
    /\ result.value /= NoToken
    /\ LET r == Call("next", <<sp>>) IN
       /\ sp' = r.tk
       /\ result' = [op |-> "next", value |-> r.tok, again |-> FALSE]
    /\ UNCHANGED <<doc, sent>>

\* next() returned null: write() and peek() go on to parse, end() calls
\* finalize(), which sets finishing and enters its own loop, and after that
\* loop closes the open levels
LeaveLoop ==
    /\ LoopTurn
    /\ result.value = NoToken
    /\ CASE phase = "write" ->
              sp' = sp /\ result' = [op |-> "left", value |-> NoToken, again |-> FALSE]
         [] phase = "end" ->
              LET r == Call("next", <<[sp EXCEPT !.finishing = TRUE]>>) IN
              /\ sp' = r.tk
              /\ result' = [op |-> "finalize", value |-> r.tok, again |-> FALSE]
         [] phase = "finalize" ->
              /\ sp' = closeIndents([sp EXCEPT !.finishing = FALSE], <<>>).tk
              /\ result' = [op |-> "left", value |-> NoToken, again |-> FALSE]
    /\ UNCHANGED <<doc, sent>>

DrainNext ==
    \/ \E n \in 1..MaxChunk : DrainWrite(n)
    \/ DrainWriteRest
    \/ DrainPeek
    \/ DrainEnd
    \/ PushToken
    \/ LeaveLoop

DrainSpec == DrainInit /\ [][DrainNext]_vars

\* a loop that has been entered takes its next turn: in a loop the only steps
\* are PushToken and LeaveLoop, and each of them is a turn that changes the
\* token list or the loop
DrainLive == DrainSpec /\ WF_<<plain, phase>>(LoopTurn)

\* C39: every call of next() that returns a token has consumed a character
\* of the buffer or has taken the token, a DEDENT, from the pending queue,
\* which leaves fewer pending tokens and open levels; every loop of write(),
\* peek() and end() is left; end() arrives at the EOF token, the last token
TokenizerProgress ==
    /\ [][result'.value /= NoToken =>
             \/ sp'.state.pos > sp.state.pos
             \/ /\ result'.value.type = "DEDENT"
                /\ Len(sp'.state.pending) + Len(sp'.state.indentStack)
                     < Len(sp.state.pending) + Len(sp.state.indentStack)]_vars
    /\ (phase = "write") ~> (phase = "idle")
    /\ (phase = "end") ~> (phase = "ended")
    /\ [](phase = "ended" => plain /= <<>> /\ plain[Len(plain)].type = "EOF")

\* end() has reached EOF after a DEDENT that came from the pending queue in
\* the middle of the document, and after a DEDENT of finalize()
TokenizerProgressWitness ==
    /\ phase = "ended"
    /\ sent = Len(doc)
    /\ \E i \in 1..(Len(plain) - 1) :
          plain[i].type = "DEDENT" /\ plain[i + 1].type \notin {"DEDENT", "EOF"}
    /\ Len(plain) > 1
    /\ plain[Len(plain) - 1].type = "DEDENT"
    /\ plain[Len(plain)].type = "EOF"

====
